---- MODULE Spec2Model ----
(***************************************************************************)
(* Regulatory-impact-assessment assistant: the grounded answer assembler   *)
(* (src/rag.py) and the versioned ingestion (src/ingest.py,                *)
(* src/utils_ingest.py), as state machines.                                *)
(*                                                                         *)
(* Python strings are TLA+ strings and the string functions of the code    *)
(* (strip, lower, split, rsplit, slicing, substring test) are computed     *)
(* character by character.  The module is ASCII: the en dash of "2-8" in   *)
(* the keyword tables is written "~" and the degree sign is dropped.       *)
(***************************************************************************)
EXTENDS Integers, Sequences, FiniteSets, TLC

VARIABLES
    apc,          \* position of the current RAGPipeline.answer call
    question,     \* its question argument
    passages,     \* what self.retrieve(question, top_k) returned to it
    backendText,  \* what llm.generate(prompt) returned to it
    genCalls,     \* number of llm.generate invocations made by the call
    result,       \* outcome of the call: a returned record or an exception
    clock,        \* the wall clock now_iso reads, in half seconds
    rawFiles,     \* data/raw: file name -> the file
    webList,      \* the non-empty lines of data/web_urls.txt
    metaFile,     \* the rows of data/index/meta.jsonl, the version manifest
    chunksFile,   \* the rows of data/index/chunks.jsonl, or NoFile
    storeFiles,   \* the persisted vectorizer and dense store, or NoFile
    spc,          \* position of the current scan_and_index run
    manifest,     \* its local manifest, as _load_manifest returned it
    sources,      \* its local sources, as _iter_sources returned it
    si,           \* number of sources the loop has finished
    versions,     \* local versions of the last loop iteration
    latest,       \* local latest of the last loop iteration
    scanOutcome,  \* how the last run ended
    kpc,          \* position of the current split_into_chunks call
    swords,       \* its local words
    smax,         \* its argument max_tokens
    sover,        \* its argument overlap
    sidx,         \* its local i
    schunks,      \* its local chunks
    vecFile,      \* data/index/tfidf_vectorizer.pkl, or NoFile
    indexFile,    \* data/index/index.faiss, or NoFile
    fmetaFile,    \* data/index/faiss_meta.jsonl, or NoFile
    pipeVec,      \* PIPE.embedder.vec of the server process
    store,        \* the FAISSStore that is searched (PIPE.index): its
                  \* index and _meta_cache
    bpc,          \* position of the current FAISSStore.build / reindex run
    bwho,         \* who runs it
    bargs,        \* its vectors and meta, and the fitted vectorizer
    builds,       \* number of builds started so far
    built,        \* arguments of the build that last succeeded on store
    nbuilt,       \* number of builds that have succeeded in the directory
    qpc,          \* position of the current search / retrieve call
    qvia,         \* "search" or "retrieve": the method called
    qargs,        \* its arguments
    qhits,        \* dense_hits of retrieve
    qscores,      \* scores of retrieve, one per dense hit
    qout,         \* outcome of the call
    lkey,         \* whether OPENAI_KEY of llm.py is a non-empty string
    lpc,          \* position of the current _post_chat call
    lretries,     \* its argument retries
    lattempt,     \* its loop variable attempt
    llast,        \* its local last_err
    lreqs,        \* number of requests the call has sent
    lsleeps,      \* number of time.sleep calls the call has made
    lresp,        \* what the last request of the call met
    lout,         \* outcome of the call
    xq,           \* argument q of the current _expand_query call
    xout          \* what it returns

avars == <<apc, question, passages, backendText, genCalls, result>>

envvars == <<rawFiles, webList>>

scanvars == <<spc, manifest, sources, si, versions, latest, scanOutcome>>

ivars == <<clock, rawFiles, webList, metaFile, chunksFile, storeFiles,
           spc, manifest, sources, si, versions, latest, scanOutcome>>

kvars == <<kpc, swords, smax, sover, sidx, schunks>>

diskvars == <<vecFile, indexFile, fmetaFile>>

buildvars == <<bpc, bwho, bargs, builds, built, nbuilt>>

queryvars == <<qpc, qvia, qargs, qhits, qscores, qout>>

pvars == <<vecFile, indexFile, fmetaFile, pipeVec, store,
           bpc, bwho, bargs, builds, built, nbuilt,
          qpc, qvia, qargs, qhits, qscores, qout>>

lvars == <<lkey, lpc, lretries, lattempt, llast, lreqs, lsleeps, lresp, lout>>

xvars == <<xq, xout>>

\* what the answer assembler leaves alone
notAnswer == <<ivars, kvars, pvars, lvars, xvars>>

\* what the ingestion leaves alone
notIngest == <<avars, kvars, pvars, lvars, xvars>>

\* what the chunker leaves alone
notSplit == <<avars, ivars, pvars, lvars, xvars>>

\* what the dense store and the server leave alone
notStore == <<avars, ivars, kvars, lvars, xvars>>

\* what the generation client leaves alone
notLlm == <<avars, ivars, kvars, pvars, xvars>>

\* what query expansion leaves alone
notExpand == <<avars, ivars, kvars, pvars, lvars>>

vars == <<apc, question, passages, backendText, genCalls, result,
          clock, rawFiles, webList, metaFile, chunksFile, storeFiles,
          spc, manifest, sources, si, versions, latest, scanOutcome,
          kpc, swords, smax, sover, sidx, schunks,
          vecFile, indexFile, fmetaFile, pipeVec, store,
          bpc, bwho, bargs, builds, built, nbuilt,
          qpc, qvia, qargs, qhits, qscores, qout,
          lkey, lpc, lretries, lattempt, llast, lreqs, lsleeps, lresp, lout,
          xq, xout>>

-----------------------------------------------------------------------------
(* Bounds *)

\* longest passage list retrieve hands to answer (top_k is 6 by default)
MaxPassages == 5

\* last tick of the wall clock
MaxClock == 2

\* greatest max_tokens handed to split_into_chunks; overlap goes one beyond
MaxTokens == 2

\* greatest top_k handed to search and retrieve
MaxTopK == 2

\* number of index builds in a behaviour
MaxBuilds == 2

\* greatest retries handed to _post_chat (generate hands 3)
MaxRetries == 3

\* longest meta.jsonl left from before
MaxLines == 2

\* number of phrases a question handed to _expand_query is made of
MaxPhrases == 3

-----------------------------------------------------------------------------
(* Python string functions *)

Min(a, b) == IF a <= b THEN a ELSE b

Max(a, b) == IF a >= b THEN a ELSE b

CharAt(s, i) == SubSeq(s, i, i)

\* s[:n]
Take(s, n) == SubSeq(s, 1, Min(n, Len(s)))

\* s[i:] with a 1-based i
Drop(s, i) == SubSeq(s, i, Len(s))

IsSpace(c) == c \in {" ", "\n", "\t", "\r"}

RECURSIVE LStrip(_)
LStrip(s) ==
    IF s # "" /\ IsSpace(CharAt(s, 1)) THEN LStrip(Drop(s, 2)) ELSE s

RECURSIVE RStrip(_)
RStrip(s) ==
    IF s # "" /\ IsSpace(CharAt(s, Len(s)))
    THEN RStrip(SubSeq(s, 1, Len(s) - 1)) ELSE s

\* str.strip()
Strip(s) == LStrip(RStrip(s))

\* k in s
Contains(s, k) ==
    \E i \in 1..(Len(s) - Len(k) + 1) : SubSeq(s, i, i + Len(k) - 1) = k

\* the lower-case letter of each upper-case letter
LowerOf ==
    [A |-> "a", B |-> "b", C |-> "c", D |-> "d", E |-> "e", F |-> "f",
     G |-> "g", H |-> "h", I |-> "i", J |-> "j", K |-> "k", L |-> "l",
     M |-> "m", N |-> "n", O |-> "o", P |-> "p", Q |-> "q", R |-> "r",
     S |-> "s", T |-> "t", U |-> "u", V |-> "v", W |-> "w", X |-> "x",
     Y |-> "y", Z |-> "z"]

UpperChars == DOMAIN LowerOf

LowerChar(c) == IF c \in UpperChars THEN LowerOf[c] ELSE c

RECURSIVE Lower(_)
\* str.lower()
Lower(s) == IF s = "" THEN "" ELSE LowerChar(CharAt(s, 1)) \o Lower(Drop(s, 2))

RECURSIVE SplitWords(_, _)
\* str.split(): the maximal runs of non-whitespace characters; cur is the
\* run being read
SplitWords(s, cur) ==
    IF s = "" THEN (IF cur = "" THEN <<>> ELSE <<cur>>)
    ELSE IF IsSpace(CharAt(s, 1))
         THEN (IF cur = "" THEN <<>> ELSE <<cur>>) \o SplitWords(Drop(s, 2), "")
         ELSE SplitWords(Drop(s, 2), cur \o CharAt(s, 1))

Words(s) == SplitWords(s, "")

RECURSIVE Join(_, _)
\* sep.join(parts)
Join(sep, parts) ==
    IF parts = <<>> THEN ""
    ELSE IF Len(parts) = 1 THEN parts[1]
    ELSE parts[1] \o sep \o Join(sep, Tail(parts))

\* " ".join(s.split())
NormWs(s) == Join(" ", Words(s))

RECURSIVE LastSlash(_, _)
\* position of the last "/" of s at or before i, 0 if there is none
LastSlash(s, i) ==
    IF i = 0 THEN 0 ELSE IF CharAt(s, i) = "/" THEN i ELSE LastSlash(s, i - 1)

\* _short_name: "" for a false path, else path.rsplit("/", 1)[-1]
ShortName(path) ==
    IF path = "" THEN "" ELSE Drop(path, LastSlash(path, Len(path)) + 1)

-----------------------------------------------------------------------------
(* JSON values, as json.loads builds them, and the dict operations used *)

JNull == [t |-> "null"]

JBool(b) == [t |-> "bool", b |-> b]

JInt(n) == [t |-> "int", n |-> n]

JStr(s) == [t |-> "str", s |-> s]

JList(l) == [t |-> "list", l |-> l]

\* o is a function from the keys present to their values
JObj(o) == [t |-> "obj", o |-> o]

EmptyDict == [k \in {} |-> JNull]

\* Python truth value of a JSON value
Truthy(v) ==
    CASE v.t = "null" -> FALSE
      [] v.t = "bool" -> v.b
      [] v.t = "int"  -> v.n # 0
      [] v.t = "str"  -> v.s # ""
      [] v.t = "list" -> v.l # <<>>
      [] v.t = "obj"  -> DOMAIN v.o # {}

\* d.get(k) on a dict d
Get(d, k) == IF k \in DOMAIN d.o THEN d.o[k] ELSE JNull

\* d[k] = v
Put(d, k, v) ==
    JObj([x \in (DOMAIN d.o) \cup {k} |-> IF x = k THEN v ELSE d.o[x]])

\* str(v) for the scalar values a quote can hold
PyStr(v) ==
    CASE v.t = "str"  -> v.s
      [] v.t = "int"  -> ToString(v.n)
      [] v.t = "bool" -> (IF v.b THEN "True" ELSE "False")
      [] OTHER        -> "None"

Returned(data) == [kind |-> "return", data |-> data]

Raised(e) == [kind |-> "raise", exc |-> e]

NoResult == [kind |-> "none"]

-----------------------------------------------------------------------------
(* RAGPipeline._backfill_risks_suggestions *)

ColdChainKeys ==
    {"2~8", "2-8", "2 to 8", "refriger", "cold chain", "transport", "shipping"}

ColdChainRisks == <<
    JStr("Risk of temperature excursion during transport leading to product quality compromise."),
    JStr("Potential non-compliance with storage/transport clauses if 2~8 C cannot be maintained for full transit.") >>

ColdChainAlts == <<
    JStr("Use a validated 2~8 C shipper with lane qualification and pre-conditioned gel packs."),
    JStr("Include a calibrated temperature logger and define acceptance criteria; review on receipt."),
    JStr("Reduce transit time or split shipments; ensure monitored handover at each leg.") >>

MalariaRisks == <<
    JStr("Risk of transfusion-transmitted malaria if deferral/eligibility rules are not applied.") >>

MalariaAlts == <<
    JStr("Apply the specified deferral period or require negative testing per the cited appendix before acceptance.") >>

DefaultRisks == <<
    JStr("Evidence insufficient; risk of non-compliance if policy deviates from cited clauses.") >>

DefaultAlts == <<
    JStr("Escalate for human review and obtain written confirmation against the cited standard/appendix.") >>

BackfillRisksSuggestions(q0) ==
    LET q     == Lower(q0)
        cold  == \E k \in ColdChainKeys : Contains(q, k)
        mal   == Contains(q, "malaria") \/ Contains(q, "endemic")
        risks == (IF cold THEN ColdChainRisks ELSE <<>>)
                 \o (IF mal THEN MalariaRisks ELSE <<>>)
        alts  == (IF cold THEN ColdChainAlts ELSE <<>>)
                 \o (IF mal THEN MalariaAlts ELSE <<>>)
    IN  [risks |-> IF risks = <<>> THEN DefaultRisks ELSE risks,
         alts  |-> IF alts = <<>> THEN DefaultAlts ELSE alts]

-----------------------------------------------------------------------------
(* RAGPipeline.answer *)

\* answer, retrieval empty: the record returned without a generation call
NoEvidenceRecord(q) ==
    LET rf == BackfillRisksSuggestions(q)
    IN  JObj([compliance_status |-> JStr("Unclear"),
              rationale |-> JStr("No index or no matches. Ingest documents first."),
              citations |-> JList(<<>>),
              violations_or_risks |-> JList(rf.risks),
              alternative_suggestions |-> JList(rf.alts),
              summary_proposal |-> JStr("Ingest relevant documents and retry; see suggested mitigations."),
              human_supervision_required |-> JBool(TRUE)])

\* the citation the code builds from a retrieved passage
PassageCitation(p) ==
    JObj([source |-> JStr(ShortName(p.source)),
          page   |-> JInt(p.page),
          quote  |-> JStr(Take(NormWs(p.text), 300))])

\* [PassageCitation(p) for p in passages[:n]]
PassageCitations(ps, n) ==
    JList([i \in 1..Min(n, Len(ps)) |-> PassageCitation(ps[i])])

\* json.loads(text): the value parsed, or the parse error
JsonLoads(text) == text.json

JsonInvalid == [t |-> "invalid"]

\* the data dict after the try/except around json.loads
ParseOrFallback(ps, text) ==
    IF JsonLoads(text) # JsonInvalid THEN JsonLoads(text)
    ELSE JObj([compliance_status |-> JStr("Unclear"),
               rationale |-> JStr(Take(text.raw, 600)),
               citations |-> PassageCitations(ps, 4),
               violations_or_risks |-> JList(<<>>),
               alternative_suggestions |-> JList(<<>>),
               summary_proposal |-> JStr("See grounded excerpts and consult a human reviewer."),
               human_supervision_required |-> JBool(TRUE)])

\* one iteration of "for c in data['citations']": the citation after the
\* in-place normalisation, or the exception the iteration raises
NormaliseCitation(c, first_src, first_page) ==
    IF c.t # "obj" THEN Raised("AttributeError")      \* c.get on a non-dict
    ELSE
    LET src0 == IF Truthy(Get(c, "source")) THEN Get(c, "source")
                ELSE JStr(first_src)
        src  == IF src0 \in {JStr("doc"), JStr(""), JNull} THEN JStr(first_src)
                ELSE src0
        c1   == Put(c, "source", JStr(ShortName(src.s)))
        c2   == IF "page" \notin DOMAIN c1.o \/ ~Truthy(c1.o["page"])
                THEN Put(c1, "page", JInt(first_page)) ELSE c1
        c3   == IF Truthy(Get(c2, "quote"))
                THEN Put(c2, "quote",
                         JStr(Take(NormWs(PyStr(Get(c2, "quote"))), 400)))
                ELSE c2
    IN  IF Truthy(src) /\ src.t # "str"
        THEN Raised("AttributeError")                 \* path.rsplit on a non-str
        ELSE Returned(c3)

\* the "Normalise / backfill citations" block: data afterwards, or the
\* exception raised
NormaliseCitations(data, ps) ==
    LET cits == Get(data, "citations")
    IN  IF ~Truthy(cits)
        THEN Returned(Put(data, "citations", PassageCitations(ps, 3)))
        ELSE
        LET first_src  == IF ps # <<>> THEN ShortName(ps[1].source) ELSE ""
            first_page == IF ps # <<>> THEN ps[1].page ELSE 1
        IN  CASE cits.t = "list" ->
                   LET n == [i \in 1..Len(cits.l) |->
                               NormaliseCitation(cits.l[i], first_src, first_page)]
                   IN  IF \E i \in 1..Len(cits.l) : n[i].kind = "raise"
                       THEN n[CHOOSE i \in 1..Len(cits.l) :
                                 /\ n[i].kind = "raise"
                                 /\ \A j \in 1..(i - 1) : n[j].kind # "raise"]
                       ELSE Returned(Put(data, "citations",
                                JList([i \in 1..Len(cits.l) |-> n[i].data])))
               \* iterating a str yields characters, a dict its keys: c.get fails
               [] cits.t \in {"str", "obj"} -> Raised("AttributeError")
               \* a true int or bool is not iterable
               [] OTHER -> Raised("TypeError")

\* the "Backfill risks/suggestions when empty" block
BackfillEmpty(data, q) ==
    LET rf == BackfillRisksSuggestions(q)
        d1 == IF ~Truthy(Get(data, "violations_or_risks"))
              THEN Put(data, "violations_or_risks", JList(rf.risks)) ELSE data
    IN  IF ~Truthy(Get(d1, "alternative_suggestions"))
        THEN Put(d1, "alternative_suggestions", JList(rf.alts)) ELSE d1

\* the "Human supervision policy" block
SupervisionPolicy(data) ==
    LET cs == IF Truthy(Get(data, "compliance_status"))
              THEN Get(data, "compliance_status") ELSE JStr("Unclear")
    IN  IF cs.t # "str" THEN Raised("AttributeError")  \* .strip on a non-str
        ELSE Returned(Put(data, "human_supervision_required",
                          JBool(Strip(cs.s) # "Compliant")))

\* answer from the json.loads on: what the call returns or raises, given
\* that retrieve returned the non-empty ps and generate returned text
Assemble(q, ps, text) ==
    LET data == ParseOrFallback(ps, text)
    IN  IF data.t # "obj" THEN Raised("AttributeError") \* data.get on a non-dict
        ELSE
        LET n == NormaliseCitations(data, ps)
        IN  IF n.kind = "raise" THEN n
            ELSE SupervisionPolicy(BackfillEmpty(n.data, q))


-----------------------------------------------------------------------------
(* Inputs of answer: questions, retrieved passages, backend replies *)

Questions ==
    {"", "Is shipping at 2-8 C required?", "Malaria deferral rules",
     "COLD CHAIN in an endemic region", "What is the storage policy?"}

\* chunk records as scan_and_index writes them (source is the file's base
\* name or the URL, pages count from 1), reduced to the fields answer reads
PassagePool ==
    {[source |-> "TGO109.pdf", page |-> 2,
      text |-> "Section 24  storage and\ntransport at 2-8 C"],
     [source |-> "https://www.tga.gov.au/", page |-> 1,
      text |-> "donor eligibility"]}

PassageLists == UNION {[1..n -> PassagePool] : n \in 0..MaxPassages}

X100 ==
    "xxxxxxxxxxxxxxxxxxxxxxxxxxxxxxxxxxxxxxxxxxxxxxxxxxxxxxxxxxxxxxxxxxxxxxxxxxxxxxxxxxxxxxxxxxxxxxxxxxxx"

\* a citation dict with the given keys
Cit(o) == JObj(o)

GoodCitation ==
    Cit([source |-> JStr("TGO109.pdf"), page |-> JInt(2),
         quote |-> JStr("storage and  transport at 2-8 C")])

\* a reply object with every field of the schema
Reply(status, cits, hsr) ==
    JObj([compliance_status |-> status,
          rationale |-> JStr("Grounded in the quotes."),
          citations |-> cits,
          violations_or_risks |-> JList(<<JStr("Temperature excursion.")>>),
          alternative_suggestions |-> JList(<<JStr("Use a validated shipper.")>>),
          summary_proposal |-> JStr("See Section 24."),
          human_supervision_required |-> hsr])

\* Texts the generation backend can return: raw is the text, json what
\* json.loads makes of it (JsonInvalid when it raises).
BackendTexts ==
    {   \* not JSON
        [raw |-> "I cannot answer that.", json |-> JsonInvalid],
        [raw |-> X100 \o X100 \o X100 \o X100 \o X100 \o X100 \o "yz",
         json |-> JsonInvalid],
        [raw |-> "{\"compliance_status\": \"Compl", json |-> JsonInvalid],
        \* JSON, not an object
        [raw |-> "[]", json |-> JList(<<>>)],
        [raw |-> "\"Compliant\"", json |-> JStr("Compliant")],
        [raw |-> "null", json |-> JNull],
        [raw |-> "5", json |-> JInt(5)],
        \* objects with fields missing, empty or ill-typed
        [raw |-> "{}", json |-> JObj(EmptyDict)],
        [raw |-> "{\"compliance_status\": \"Compliant\", \"citations\": [], \"violations_or_risks\": [], \"alternative_suggestions\": []}",
         json |-> JObj([compliance_status |-> JStr("Compliant"),
                        citations |-> JList(<<>>),
                        violations_or_risks |-> JList(<<>>),
                        alternative_suggestions |-> JList(<<>>)])],
        [raw |-> "{\"compliance_status\": null, \"citations\": null}",
         json |-> JObj([compliance_status |-> JNull, citations |-> JNull])],
        [raw |-> "{\"compliance_status\": 5}",
         json |-> JObj([compliance_status |-> JInt(5)])],
        [raw |-> "{\"compliance_status\": \"Maybe\"}",
         json |-> JObj([compliance_status |-> JStr("Maybe")])],
        [raw |-> "{\"citations\": \"abc\"}",
         json |-> JObj([citations |-> JStr("abc")])],
        [raw |-> "{\"citations\": 7}",
         json |-> JObj([citations |-> JInt(7)])],
        [raw |-> "{\"citations\": [5]}",
         json |-> JObj([citations |-> JList(<<JInt(5)>>)])],
        [raw |-> "{\"citations\": [{}]}",
         json |-> JObj([citations |-> JList(<<Cit(EmptyDict)>>)])],
        [raw |-> "{\"citations\": [{\"source\": 7}]}",
         json |-> JObj([citations |-> JList(<<Cit([source |-> JInt(7)])>>)])],
        [raw |-> "{\"violations_or_risks\": 5, \"alternative_suggestions\": \"none\"}",
         json |-> JObj([violations_or_risks |-> JInt(5),
                        alternative_suggestions |-> JStr("none")])],
        \* objects with every field
        [raw |-> "{\"compliance_status\": \"Compliant\", ..., \"citations\": [{\"source\": \"TGO109.pdf\", \"page\": 2, \"quote\": \"storage and  transport at 2-8 C\"}], ..., \"human_supervision_required\": false}",
         json |-> Reply(JStr("Compliant"), JList(<<GoodCitation>>), JBool(FALSE))],
        [raw |-> "{\"compliance_status\": \"Compliant\", ..., \"citations\": [{\"source\": \"TGO109.pdf\", \"page\": 2, \"quote\": \"storage and  transport at 2-8 C\"}], ..., \"human_supervision_required\": true}",
         json |-> Reply(JStr("Compliant"), JList(<<GoodCitation>>), JBool(TRUE))],
        [raw |-> "{\"compliance_status\": \"Not Compliant\", ..., \"citations\": [{\"source\": \"TGO109.pdf\", \"page\": 2, \"quote\": \"storage and  transport at 2-8 C\"}], ..., \"human_supervision_required\": false}",
         json |-> Reply(JStr("Not Compliant"), JList(<<GoodCitation>>), JBool(FALSE))],
        [raw |-> "{\"compliance_status\": \"Unclear\", ..., \"citations\": [{\"source\": \"TGO109.pdf\", \"page\": 2, \"quote\": \"storage and  transport at 2-8 C\"}], ..., \"human_supervision_required\": false}",
         json |-> Reply(JStr("Unclear"), JList(<<GoodCitation>>), JBool(FALSE))],
        [raw |-> "{\"compliance_status\": \" Compliant\", ..., \"citations\": [{\"source\": \"TGO109.pdf\", \"page\": 2, \"quote\": \"storage and  transport at 2-8 C\"}], ..., \"human_supervision_required\": false}",
         json |-> Reply(JStr(" Compliant"), JList(<<GoodCitation>>), JBool(FALSE))],
        [raw |-> "{\"compliance_status\": \"Unclear\", ..., \"citations\": [{\"source\": \"doc\", \"page\": 0}, {\"page\": 3}], ..., \"human_supervision_required\": true}",
         json |-> Reply(JStr("Unclear"),
                        JList(<<Cit([source |-> JStr("doc"), page |-> JInt(0)]),
                                Cit([page |-> JInt(3)])>>),
                        JBool(TRUE))],
        [raw |-> "{\"compliance_status\": \"Unclear\", ..., \"citations\": [{\"source\": \"docs/\", \"page\": 1}], ..., \"human_supervision_required\": true}",
         json |-> Reply(JStr("Unclear"),
                        JList(<<Cit([source |-> JStr("docs/"), page |-> JInt(1)])>>),
                        JBool(TRUE))],
        [raw |-> "{\"compliance_status\": \"Unclear\", ..., \"citations\": [{\"source\": \"files/doc\"}], ..., \"human_supervision_required\": true}",
         json |-> Reply(JStr("Unclear"),
                        JList(<<Cit([source |-> JStr("files/doc")])>>),
                        JBool(TRUE))],
        [raw |-> "{\"compliance_status\": \"Not Compliant\", ..., \"citations\": [{\"source\": \"data/raw/TGO109.pdf\", \"page\": 2}, {\"source\": \"invented.pdf\", \"page\": 99, \"quote\": 12}], ..., \"human_supervision_required\": true}",
         json |-> Reply(JStr("Not Compliant"),
                        JList(<<Cit([source |-> JStr("data/raw/TGO109.pdf"), page |-> JInt(2)]),
                                Cit([source |-> JStr("invented.pdf"), page |-> JInt(99),
                                     quote |-> JInt(12)])>>),
                        JBool(TRUE))]
    }

-----------------------------------------------------------------------------
(* The steps of one RAGPipeline.answer call *)

NoText == [raw |-> "", json |-> [t |-> "none"]]

\* answer without the "if not passages" return
AnswerRetrieve_NoEarlyReturn(q, ps) ==
    /\ apc = "idle"
    /\ question' = q
    /\ passages' = ps
    /\ backendText' = NoText
    /\ genCalls' = 0
    /\ result' = NoResult
    /\ apc' = "generate"
    /\ UNCHANGED notAnswer

\* answer up to "prompt = self.format_prompt(...)": retrieve, and the early
\* return when nothing was retrieved
AnswerRetrieve(q, ps) ==
    /\ apc = "idle"
    /\ question' = q
    /\ passages' = ps
    /\ backendText' = NoText
    /\ genCalls' = 0
    /\ IF ps = <<>>
       THEN /\ result' = Returned(NoEvidenceRecord(q))
            /\ apc' = "done"
       ELSE /\ result' = NoResult
            /\ apc' = "generate"
    /\ UNCHANGED notAnswer

\* generate(prompt) returns text; parsing, normalisation, backfill, policy
AnswerGenerate(text) ==
    /\ apc = "generate"
    /\ genCalls' = genCalls + 1
    /\ backendText' = text
    /\ result' = Assemble(question, passages, text)
    /\ apc' = "done"
    /\ UNCHANGED <<question, passages>>
    /\ UNCHANGED notAnswer

\* generate(prompt) raises (retries exhausted, client error, no API key)
AnswerGenerateFails ==
    /\ apc = "generate"
    /\ genCalls' = genCalls + 1
    /\ result' = Raised("BackendError")
    /\ apc' = "done"
    /\ UNCHANGED <<question, passages, backendText>>
    /\ UNCHANGED notAnswer

\* the caller (server.py ask/report) takes the outcome; the pipeline object
\* keeps nothing of the call
AnswerReturn ==
    /\ apc = "done"
    /\ apc' = "idle"
    /\ question' = ""
    /\ passages' = <<>>
    /\ backendText' = NoText
    /\ genCalls' = 0
    /\ result' = NoResult
    /\ UNCHANGED notAnswer

InitAnswer ==
    /\ apc = "idle"
    /\ question = ""
    /\ passages = <<>>
    /\ backendText = NoText
    /\ genCalls = 0
    /\ result = NoResult

NextAnswer ==
    \/ \E q \in Questions, ps \in PassageLists : AnswerRetrieve(q, ps)
    \/ \E text \in BackendTexts : AnswerGenerate(text)
    \/ AnswerGenerateFails
    \/ AnswerReturn


-----------------------------------------------------------------------------
(* Properties of RAGPipeline.answer *)

SchemaFields ==
    {"compliance_status", "rationale", "citations", "violations_or_risks",
     "alternative_suggestions", "summary_proposal", "human_supervision_required"}

StatusValues == {JStr("Compliant"), JStr("Not Compliant"), JStr("Unclear")}

\* the call is over and the backend had returned a text to it
Replied == apc = "done" /\ backendText # NoText

NonEmptyList(v) == v.t = "list" /\ v.l # <<>>

\* C1: in every record answer returns, human_supervision_required equals
\* (compliance_status != "Compliant") of that same record.
C1_SupervisionMatchesStatus ==
    result.kind = "return" =>
        Get(result.data, "human_supervision_required")
            = JBool(Get(result.data, "compliance_status") # JStr("Compliant"))

\* C2: with a non-empty retrieval, whatever text the backend returned,
\* answer returns a record whose citations list is non-empty.
C2_CitationsNonEmpty ==
    (Replied /\ passages # <<>>) =>
        /\ result.kind = "return"
        /\ NonEmptyList(Get(result.data, "citations"))

\* the reply is not the expected structured object: not JSON, or JSON that
\* is not an object
Malformed(text) == JsonLoads(text) = JsonInvalid \/ JsonLoads(text).t # "obj"

\* C3: a reply that does not parse as the expected object never makes answer
\* raise; the record returned is the fallback: "Unclear", the raw text cut to
\* 600 characters as rationale, supervision required, and one citation per
\* top passage (at most 4, in retrieval order) taken from retrieval.
C3_MalformedReplyFallsBack ==
    (Replied /\ Malformed(backendText)) =>
        /\ result.kind = "return"
        /\ Get(result.data, "compliance_status") = JStr("Unclear")
        /\ Get(result.data, "rationale") = JStr(Take(backendText.raw, 600))
        /\ Get(result.data, "human_supervision_required") = JBool(TRUE)
        /\ LET cits == Get(result.data, "citations")
           IN  /\ cits.t = "list"
               /\ Len(cits.l) = Min(4, Len(passages))
               /\ \A i \in 1..Len(cits.l) :
                     /\ Get(cits.l[i], "page") = JInt(passages[i].page)
                     /\ Get(cits.l[i], "quote")
                            = JStr(Take(NormWs(passages[i].text), 300))
                     /\ Get(cits.l[i], "source")
                            \in {JStr(ShortName(passages[i].source)),
                                 JStr(ShortName(passages[1].source))}

\* C4: unless the backend call itself failed, answer returns a record with
\* all seven fields and one of the three compliance_status values.
C4_WellFormedRecord ==
    (apc = "done" /\ result # Raised("BackendError")) =>
        /\ result.kind = "return"
        /\ SchemaFields \subseteq DOMAIN result.data.o
        /\ Get(result.data, "compliance_status") \in StatusValues

\* C5: with an empty retrieval answer returns "Unclear", no citations and
\* supervision required, a record fixed by the question alone, and the call
\* never invokes llm.generate.
C5_NoEvidenceNoGeneration ==
    /\ (apc = "generate" \/ genCalls > 0) => passages # <<>>
    /\ (apc = "done" /\ passages = <<>>) =>
          /\ genCalls = 0
          /\ backendText = NoText
          /\ result.kind = "return"
          /\ Get(result.data, "compliance_status") = JStr("Unclear")
          /\ Get(result.data, "citations") = JList(<<>>)
          /\ Get(result.data, "human_supervision_required") = JBool(TRUE)
          /\ \A q \in Questions :
                BackfillRisksSuggestions(q) = BackfillRisksSuggestions(question)
                    => result.data = NoEvidenceRecord(q)

\* C5 witness: a call with a malaria question and nothing retrieved is over
C5_Witness ==
    /\ apc = "done"
    /\ passages = <<>>
    /\ question = "Malaria deferral rules"
    /\ Get(result.data, "violations_or_risks") = JList(MalariaRisks)

\* C6: with a non-empty retrieval, whatever text the backend returned, the
\* record has a non-empty violations_or_risks list and a non-empty
\* alternative_suggestions list.
C6_RisksAndAltsNonEmpty ==
    (Replied /\ passages # <<>>) =>
        /\ result.kind = "return"
        /\ NonEmptyList(Get(result.data, "violations_or_risks"))
        /\ NonEmptyList(Get(result.data, "alternative_suggestions"))

Placeholder(v) == v \in {JNull, JStr(""), JStr("doc")}

\* C7: with a non-empty retrieval every citation of a returned record has a
\* source that is a non-empty string other than "doc" and a page; where the
\* backend's citation had a missing or placeholder source (page), the record
\* has the first passage's source (page) there.
C7_CitationsHaveSourceAndPage ==
    (apc = "done" /\ passages # <<>> /\ result.kind = "return") =>
        LET cits == Get(result.data, "citations")
            sent == IF JsonLoads(backendText).t = "obj"
                    THEN Get(JsonLoads(backendText), "citations") ELSE JNull
        IN  /\ cits.t = "list"
            /\ \A i \in 1..Len(cits.l) :
                  /\ cits.l[i].t = "obj"
                  /\ Get(cits.l[i], "source").t = "str"
                  /\ ~Placeholder(Get(cits.l[i], "source"))
                  /\ Get(cits.l[i], "page") # JNull
            /\ NonEmptyList(sent) =>
                  \A i \in 1..Len(sent.l) :
                     /\ Placeholder(Get(sent.l[i], "source")) =>
                           Get(cits.l[i], "source")
                               = JStr(ShortName(passages[1].source))
                     /\ ~Truthy(Get(sent.l[i], "page")) =>
                           Get(cits.l[i], "page") = JInt(passages[1].page)


-----------------------------------------------------------------------------
(* utils_ingest.py *)

\* sha256_text: the digest is taken to be collision free, so the text itself
\* (tagged) stands for it
sha256_text(t) == "sha256:" \o t

TwoDigits(n) == IF n < 10 THEN "0" \o ToString(n) ELSE ToString(n)

\* now_iso at clock tick c: datetime.isoformat() of a UTC time, which leaves
\* the fraction out when the microseconds are 0
now_iso(c) ==
    "2026-01-01T00:00:" \o TwoDigits(c \div 2)
        \o (IF c % 2 = 1 THEN ".500000" ELSE "") \o "+00:00"

\* the code points of the characters of timestamps and file names
CodePoint ==
    "+" :> 43 @@ "-" :> 45 @@ "." :> 46 @@ "0" :> 48 @@ "1" :> 49 @@ "2" :> 50 @@
    "3" :> 51 @@ "4" :> 52 @@ "5" :> 53 @@ "6" :> 54 @@ "7" :> 55 @@ "8" :> 56 @@
    "9" :> 57 @@ ":" :> 58 @@ "T" :> 84 @@ "a" :> 97 @@ "b" :> 98 @@ "c" :> 99 @@
    "d" :> 100 @@ "e" :> 101 @@ "f" :> 102 @@ "g" :> 103 @@ "h" :> 104 @@ "i" :> 105 @@
    "j" :> 106 @@ "k" :> 107 @@ "l" :> 108 @@ "m" :> 109 @@ "n" :> 110 @@ "o" :> 111 @@
    "p" :> 112 @@ "q" :> 113 @@ "r" :> 114 @@ "s" :> 115 @@ "t" :> 116 @@ "u" :> 117 @@
    "v" :> 118 @@ "w" :> 119 @@ "x" :> 120 @@ "y" :> 121 @@ "z" :> 122 @@
    " " :> 32

Ord(c) == CodePoint[c]

RECURSIVE StrLess(_, _)
\* a < b on Python strings
StrLess(a, b) ==
    IF b = "" THEN FALSE
    ELSE IF a = "" THEN TRUE
    ELSE IF CharAt(a, 1) # CharAt(b, 1) THEN Ord(CharAt(a, 1)) < Ord(CharAt(b, 1))
    ELSE StrLess(Drop(a, 2), Drop(b, 2))

\* a slice bound as list slicing takes it: counted from the end when
\* negative, then brought into 0..n
SliceBound(n, k) == IF k < 0 THEN Max(0, k + n) ELSE Min(k, n)

\* seq[a:b] of a Python list
PySlice(seq, a, b) ==
    SubSeq(seq, SliceBound(Len(seq), a) + 1, SliceBound(Len(seq), b))

\* the step without the floor: i += max_tokens - overlap
Advance_NoFloor(max_tokens, overlap) == max_tokens - overlap

\* the step with the sign of overlap slipped: windows are stepped over
Advance_Overshoot(max_tokens, overlap) == Max(1, max_tokens + overlap)

\* the step of the window start: max(1, max_tokens - overlap)
Advance(max_tokens, overlap) == Max(1, max_tokens - overlap)

\* chunks after "if chunk: chunks.append(" ".join(chunk))"
AppendWindow(chunks, chunk) ==
    IF chunk # <<>> THEN Append(chunks, Join(" ", chunk)) ELSE chunks

RECURSIVE Windows(_, _, _, _)
\* the while loop of split_into_chunks from window start i (0-based)
Windows(words, i, max_tokens, overlap) ==
    IF i >= Len(words) THEN <<>>
    ELSE AppendWindow(<<>>, PySlice(words, i, i + max_tokens))
         \o Windows(words, i + Advance(max_tokens, overlap), max_tokens, overlap)

split_into_chunks(text, max_tokens, overlap) ==
    Windows(Words(text), 0, max_tokens, overlap)

-----------------------------------------------------------------------------
(* ingest.py: the files and the sources *)

\* a path at which there is no file
NoFile == [exists |-> FALSE]

\* a file holding the given rows (in data/raw: the given text)
File(rows) == [exists |-> TRUE, rows |-> rows]

\* a line of a .jsonl file that json.loads rejects (a partial write, text
\* that is not JSON)
BadLine == [bad |-> TRUE]

\* a line of white space
BlankLine == [blank |-> TRUE]

\* a line json.loads reads as a value that is not an object: the JSON values
\* carry their type, the rows that are objects are records of their keys
NotADict(line) == "t" \in DOMAIN line

\* a reader returns pages, or raises (unreadable file, HTTP error)
Pages(ps) == [ok |-> TRUE, pages |-> ps]

ReadError == [ok |-> FALSE]

FileNames == {"a.txt"}

Url == "https://www.tga.gov.au/"

RawPath(name) == "data/raw/" \o name

\* read_txt of a file with the given content: one page, stripped
TxtPages(content) == Pages(<<[page |-> 1, text |-> Strip(content)]>>)

\* read_web of a page whose visible text is the given one
WebPagesOf(content) == Pages(<<[page |-> 1, text |-> Strip(NormWs(content))]>>)

FileContents == {"storage at 2-8 C \n", "storage at 2-8 C required"}

\* the visible text the site serves at a URL
WebText(url) == "donor  eligibility rules"

WebLists == {<<>>, <<Url>>, <<Url, Url>>}

RECURSIVE SortedNames(_)
\* sorted(...) of a set of names
SortedNames(S) ==
    IF S = {} THEN <<>>
    ELSE LET m == CHOOSE x \in S : \A y \in S \ {x} : StrLess(x, y)
         IN  <<m>> \o SortedNames(S \ {m})

\* _iter_sources
IterSources ==
    LET names == SortedNames({f \in FileNames : rawFiles[f] # NoFile})
    IN  [i \in 1..Len(names) |->
            [type |-> "file", id |-> names[i], path |-> RawPath(names[i])]]
        \o [i \in 1..Len(webList) |->
            [type |-> "url", id |-> webList[i], url |-> webList[i]]]

\* _read_local_file(path) for the paths of data/raw, "" included; readable
\* tells whether the reader gets through (no I/O error)
ReadLocalFile(path, readable) ==
    IF path = "" THEN Pages(<<>>)        \* no extension: return []
    ELSE IF readable /\ \E f \in FileNames : RawPath(f) = path /\ rawFiles[f] # NoFile
    THEN TxtPages(rawFiles[CHOOSE f \in FileNames : RawPath(f) = path].rows)
    ELSE ReadError

\* read_web(url); reachable tells whether the request succeeds
ReadWeb(url, reachable) ==
    IF reachable /\ url # "" THEN WebPagesOf(WebText(url)) ELSE ReadError

-----------------------------------------------------------------------------
(* ingest.py: the manifest *)

\* rec.get(k) on a manifest row; None and "" are both false
RowGet(rec, k) == IF k \in DOMAIN rec THEN rec[k] ELSE ""

RECURSIVE FirstTrue(_, _)
\* a or b or ... over the values of the keys, "" if all are false
FirstTrue(rec, keys) ==
    IF keys = <<>> THEN ""
    ELSE IF RowGet(rec, Head(keys)) # "" THEN RowGet(rec, Head(keys))
    ELSE FirstTrue(rec, Tail(keys))

\* the normalised record _load_manifest makes of a row
NormRow(rec, now) ==
    [doc_id       |-> FirstTrue(rec, <<"doc_id", "source", "id", "path", "url">>),
     version_hash |-> FirstTrue(rec, <<"version_hash", "hash", "sha256">>),
     created_at   |-> IF FirstTrue(rec, <<"created_at", "timestamp">>) # ""
                      THEN FirstTrue(rec, <<"created_at", "timestamp">>)
                      ELSE now,
     source_kind  |-> IF RowGet(rec, "source_kind") # "" THEN rec["source_kind"]
                      ELSE IF "url" \in DOMAIN rec THEN "url" ELSE "file",
     path         |-> RowGet(rec, "path"),
     url          |-> RowGet(rec, "url")]

\* d.setdefault(doc_id, {})[vhash] = norm on the dict kept as the sequence
\* of its values in insertion order
ManifestPut(d, norm) ==
    IF \E i \in 1..Len(d) : d[i].doc_id = norm.doc_id
                            /\ d[i].version_hash = norm.version_hash
    THEN [i \in 1..Len(d) |->
            IF d[i].doc_id = norm.doc_id /\ d[i].version_hash = norm.version_hash
            THEN norm ELSE d[i]]
    ELSE Append(d, norm)

RECURSIVE LoadRows(_, _, _)
\* the loop over the lines: the dict at the end, or the exception raised
LoadRows(rows, d, now) ==
    IF rows = <<>> THEN Returned(d)
    ELSE IF Head(rows) \in {BlankLine, BadLine}
    THEN LoadRows(Tail(rows), d, now)
    ELSE IF NotADict(Head(rows))
    THEN Raised("AttributeError")                  \* rec.get on a non-dict
    ELSE LET norm == NormRow(Head(rows), now)
         IN  IF norm.doc_id = "" \/ norm.version_hash = ""
             THEN LoadRows(Tail(rows), d, now)
             ELSE LoadRows(Tail(rows), ManifestPut(d, norm), now)

\* _load_manifest
LoadManifest(file, now) == LoadRows(file, <<>>, now)

\* list(manifest.get(doc_id, {}).values())
OldVersions(d, doc_id) == SelectSeq(d, LAMBDA r : r.doc_id = doc_id)

\* _append_manifest opening the file with mode "w"
AppendManifest_Truncating(file, rec) == <<rec>>

\* _append_manifest
AppendManifest(file, rec) == Append(file, rec)

\* _append_chunk: open(CHUNKS_PATH, "a") creates the file
AppendChunk(file, rec) ==
    IF file = NoFile THEN File(<<rec>>) ELSE File(Append(file.rows, rec))

\* the sort without reverse=True: the first of the versions with the least
\* created_at
Latest_Ascending(vs) ==
    vs[CHOOSE i \in 1..Len(vs) :
          /\ \A j \in 1..Len(vs) : ~StrLess(vs[j].created_at, vs[i].created_at)
          /\ \A j \in 1..(i - 1) : StrLess(vs[i].created_at, vs[j].created_at)]

\* sorted(versions, key=created_at, reverse=True)[0]: the sort is stable, so
\* the first of the versions with the greatest created_at
Latest(vs) ==
    vs[CHOOSE i \in 1..Len(vs) :
          /\ \A j \in 1..Len(vs) : ~StrLess(vs[i].created_at, vs[j].created_at)
          /\ \A j \in 1..(i - 1) : StrLess(vs[j].created_at, vs[i].created_at)]


-----------------------------------------------------------------------------
(* ingest.py: TfidfVectorizer(ngram_range=(1,2), min_df=2, max_df=0.9).fit *)

\* the positions at which a run of non-whitespace characters starts
WordStarts(s) ==
    {i \in 1..Len(s) : /\ ~IsSpace(CharAt(s, i))
                        /\ (i = 1 \/ IsSpace(CharAt(s, i - 1)))}

\* the run that starts at position i
WordAt(s, i) ==
    SubSeq(s, i, CHOOSE j \in i..Len(s) :
                    /\ \A m \in i..j : ~IsSpace(CharAt(s, m))
                    /\ (j = Len(s) \/ IsSpace(CharAt(s, j + 1))))

\* str.split() by positions, for texts of any length
LongWords(s) ==
    LET starts == WordStarts(s)
    IN  [k \in 1..Cardinality(starts) |->
            WordAt(s, CHOOSE x \in starts :
                         Cardinality({y \in starts : y < x}) = k - 1)]

\* the word tokens of a text: runs of two or more characters, lower-cased
Tokens(text) ==
    LET w == LongWords(text)
    IN  SelectSeq([k \in 1..Len(w) |-> Lower(w[k])], LAMBDA x : Len(x) >= 2)

\* its 1-grams and 2-grams
Terms(text) ==
    LET w == Tokens(text)
    IN  {w[i] : i \in 1..Len(w)}
        \cup {w[i] \o " " \o w[i + 1] : i \in 1..(Len(w) - 1)}

\* the vocabulary fit keeps: terms in at least 2 and at most 0.9 n of the n
\* texts; not ok (ValueError) when max_df falls below min_df or no term is
\* kept
RECURSIVE TermSets(_)
TermSets(texts) ==
    IF texts = <<>> THEN <<>> ELSE <<Terms(Head(texts))>> \o TermSets(Tail(texts))

FitVocabulary(texts) ==
    LET n    == Len(texts)
        ts   == TermSets(texts)
        df(t) == Cardinality({i \in 1..n : t \in ts[i]})
        all  == UNION {ts[i] : i \in 1..n}
        kept == {t \in all : df(t) >= 2 /\ 10 * df(t) <= 9 * n}
    IN  IF 9 * n < 20 \/ kept = {} THEN [ok |-> FALSE]
        ELSE [ok |-> TRUE, vocabulary |-> kept]

-----------------------------------------------------------------------------
(* ingest.py: scan_and_index, one step per statement group *)

NoVersion == [doc_id |-> "", version_hash |-> "", created_at |-> ""]

ScanLocalsReset ==
    /\ manifest' = <<>>
    /\ sources' = <<>>
    /\ si' = 0
    /\ versions' = <<>>
    /\ latest' = NoVersion

\* an exception leaves scan_and_index
ScanRaise(e) ==
    /\ spc' = "ended"
    /\ scanOutcome' = e
    /\ ScanLocalsReset

\* scan_and_index up to the loop: load the manifest, remove the chunks file,
\* list the sources
ScanStart ==
    /\ spc = "idle"
    /\ LET loaded == LoadManifest(metaFile, now_iso(clock))
       IN  IF loaded.kind = "raise"
           THEN /\ ScanRaise("raised: " \o loaded.exc)
                /\ UNCHANGED chunksFile
           ELSE /\ manifest' = loaded.data
                /\ chunksFile' = NoFile
                /\ sources' = IterSources
                /\ si' = 0
                /\ versions' = <<>>
                /\ latest' = NoVersion
                /\ spc' = "loop"
                /\ scanOutcome' = "running"
    /\ UNCHANGED <<clock, envvars, metaFile, storeFiles>>
    /\ UNCHANGED notIngest

\* the chunk records of the pages, stamped with the version hash vh
ChunkRecords(doc_id, vh, pages) ==
    LET PageChunks(pg) ==
            LET cs == split_into_chunks(pg.text, 420, 60)
            IN  [i \in 1..Len(cs) |->
                    [doc_id |-> doc_id, version_hash |-> vh, page |-> pg.page,
                     chunk_id |-> ToString(pg.page) \o "-" \o ToString(i - 1),
                     text |-> cs[i], source |-> doc_id]]
        RECURSIVE Flat(_)
        Flat(ps) == IF ps = <<>> THEN <<>>
                    ELSE PageChunks(Head(ps)) \o Flat(Tail(ps))
    IN  Flat(pages)

RECURSIVE AppendChunks(_, _)
AppendChunks(file, recs) ==
    IF recs = <<>> THEN file
    ELSE AppendChunks(AppendChunk(file, Head(recs)), Tail(recs))

\* the reader of a source and of a manifest version of it
ReadSource(s, ok) ==
    IF s.type = "file" THEN ReadLocalFile(s.path, ok) ELSE ReadWeb(s.url, ok)

ReadVersion(s, v, ok) ==
    IF s.type = "file" THEN ReadLocalFile(v.path, ok) ELSE ReadWeb(v.url, ok)

\* the manifest entry written for a source
RecMeta(s, doc_id, vhash, now) ==
    IF s.type = "file"
    THEN [doc_id |-> doc_id, version_hash |-> vhash, created_at |-> now,
          source_kind |-> "file", path |-> s.path]
    ELSE [doc_id |-> doc_id, version_hash |-> vhash, created_at |-> now,
          source_kind |-> "url", url |-> s.url]

\* one iteration of "for s in sources"; readOk and rereadOk tell whether the
\* reader calls of the iteration get through
ScanSource(readOk, rereadOk) ==
    /\ spc = "loop"
    /\ si < Len(sources)
    /\ LET s      == sources[si + 1]
           pages  == ReadSource(s, readOk)
       IN  IF pages = ReadError
           THEN /\ ScanRaise("raised: read error")
                /\ UNCHANGED <<metaFile, chunksFile>>
           ELSE
           LET doc_id == IF s.type = "file" THEN ShortName(s.path) ELSE s.id
               full_text == Join("\n\n", [i \in 1..Len(pages.pages) |->
                                              pages.pages[i].text])
               vhash  == sha256_text(full_text)
               old    == OldVersions(manifest, doc_id)
               is_new == \A i \in 1..Len(old) : old[i].version_hash # vhash
               rec    == RecMeta(s, doc_id, vhash, now_iso(clock))
               vs     == old \o (IF is_new THEN <<rec>> ELSE <<>>)
               lat    == Latest(vs)
               pages2 == IF lat.version_hash # vhash
                         THEN ReadVersion(s, lat, rereadOk) ELSE pages
           IN  /\ metaFile' = IF is_new THEN AppendManifest(metaFile, rec)
                              ELSE metaFile
               /\ IF pages2 = ReadError
                  THEN /\ ScanRaise("raised: read error")
                       /\ UNCHANGED chunksFile
                  ELSE /\ chunksFile' = AppendChunks(chunksFile,
                              ChunkRecords(doc_id, lat.version_hash, pages2.pages))
                       /\ versions' = vs
                       /\ latest' = lat
                       /\ si' = si + 1
                       /\ UNCHANGED <<spc, manifest, sources, scanOutcome>>
    /\ UNCHANGED <<clock, envvars, storeFiles>>
    /\ UNCHANGED notIngest

\* scan_and_index after the loop: read the chunks back, fit the vectorizer,
\* build the store
ScanFinish ==
    /\ spc = "loop"
    /\ si = Len(sources)
    /\ IF chunksFile = NoFile
       THEN /\ scanOutcome' = "raised: FileNotFoundError"   \* open(CHUNKS_PATH)
            /\ UNCHANGED storeFiles
       ELSE IF chunksFile.rows = <<>>
       THEN /\ scanOutcome' = "returned: no chunks"
            /\ UNCHANGED storeFiles
       ELSE LET fit == FitVocabulary([i \in 1..Len(chunksFile.rows) |->
                                        chunksFile.rows[i].text])
            IN  IF ~fit.ok
                THEN /\ scanOutcome' = "raised: ValueError"
                     /\ UNCHANGED storeFiles
                ELSE /\ scanOutcome' = "returned: done"
                     /\ storeFiles' = [exists |-> TRUE,
                                       vectorizer |-> fit.vocabulary,
                                       meta |-> chunksFile.rows]
    /\ spc' = "ended"
    /\ ScanLocalsReset
    /\ UNCHANGED <<clock, envvars, metaFile, chunksFile>>
    /\ UNCHANGED notIngest

\* the caller (ingest.py __main__, server.py reindex) takes the outcome
ScanReturn ==
    /\ spc = "ended"
    /\ spc' = "idle"
    /\ scanOutcome' = "none"
    /\ UNCHANGED <<clock, envvars, metaFile, chunksFile, storeFiles,
                   manifest, sources, si, versions, latest>>
    /\ UNCHANGED notIngest

-----------------------------------------------------------------------------
(* The environment of ingestion, between runs *)

\* a text file is put into data/raw, or its content replaced
WriteRawFile(f, content) ==
    /\ spc = "idle"
    /\ rawFiles' = [rawFiles EXCEPT ![f] = File(content)]
    /\ UNCHANGED <<clock, webList, metaFile, chunksFile, storeFiles, scanvars>>
    /\ UNCHANGED notIngest

\* data/web_urls.txt is edited
EditWebList(l) ==
    /\ spc = "idle"
    /\ webList' = l
    /\ UNCHANGED <<clock, rawFiles, metaFile, chunksFile, storeFiles, scanvars>>
    /\ UNCHANGED notIngest

\* time passes
Tick ==
    /\ clock < MaxClock
    /\ clock' = clock + 1
    /\ UNCHANGED <<envvars, metaFile, chunksFile, storeFiles, scanvars>>
    /\ UNCHANGED notIngest

\* rows an earlier release of the tool, or a hand, can have left in
\* meta.jsonl: lines that are not JSON or not an object, rows without a key,
\* without a hash, in the legacy shape, in the present shape
ManifestLines ==
    {BadLine, JList(<<>>), JNull,
     [created_at |-> now_iso(0)],
     [doc_id |-> "a.txt", created_at |-> now_iso(0)],
     [version_hash |-> sha256_text("old text")],
     [source |-> "a.txt", hash |-> sha256_text("old text"),
      timestamp |-> now_iso(0)],
     [doc_id |-> "a.txt", version_hash |-> sha256_text("storage at 2-8 C"),
      created_at |-> now_iso(1), source_kind |-> "file",
      path |-> RawPath("a.txt")]}

\* meta.jsonl is found with the given lines when a run starts
ManifestLeft(lines) ==
    /\ spc = "idle"
    /\ metaFile' = lines
    /\ UNCHANGED <<clock, envvars, chunksFile, storeFiles, scanvars>>
    /\ UNCHANGED notIngest

InitIngest ==
    /\ clock = 0
    /\ rawFiles = [f \in FileNames |-> NoFile]
    /\ webList = <<>>
    /\ metaFile = <<>>
    /\ chunksFile = NoFile
    /\ storeFiles = NoFile
    /\ spc = "idle"
    /\ manifest = <<>>
    /\ sources = <<>>
    /\ si = 0
    /\ versions = <<>>
    /\ latest = NoVersion
    /\ scanOutcome = "none"

NextIngest ==
    \/ ScanStart
    \/ \E readOk, rereadOk \in BOOLEAN : ScanSource(readOk, rereadOk)
    \/ ScanFinish
    \/ ScanReturn
    \/ \E f \in FileNames, c \in FileContents : WriteRawFile(f, c)
    \/ \E l \in WebLists : EditWebList(l)
    \/ Tick

\* runs over an empty data/raw and a manifest left from before
NextLegacy ==
    \/ \E n \in 0..MaxLines : \E lines \in [1..n -> ManifestLines] :
          ManifestLeft(lines)
    \/ ScanStart
    \/ ScanFinish
    \/ ScanReturn

-----------------------------------------------------------------------------
(* utils_ingest.py: split_into_chunks, one step per loop iteration *)

SplitTexts == {"", "a", "a b", " a  b\nc ", "a b c d"}

SplitLocalsReset ==
    /\ swords' = <<>>
    /\ smax' = 0
    /\ sover' = 0
    /\ sidx' = 0
    /\ schunks' = <<>>

\* the call: words = text.split(); chunks, i = [], 0
SplitCall(text, max_tokens, overlap) ==
    /\ kpc = "idle"
    /\ swords' = Words(text)
    /\ smax' = max_tokens
    /\ sover' = overlap
    /\ sidx' = 0
    /\ schunks' = <<>>
    /\ kpc' = "loop"
    /\ UNCHANGED notSplit

\* one iteration of "while i < len(words)"
SplitIter ==
    /\ kpc = "loop"
    /\ sidx < Len(swords)
    /\ schunks' = AppendWindow(schunks, PySlice(swords, sidx, sidx + smax))
    /\ sidx' = sidx + Advance(smax, sover)
    /\ UNCHANGED <<kpc, swords, smax, sover>>
    /\ UNCHANGED notSplit

\* the loop condition fails: return chunks
SplitExit ==
    /\ kpc = "loop"
    /\ sidx >= Len(swords)
    /\ kpc' = "done"
    /\ UNCHANGED <<swords, smax, sover, sidx, schunks>>
    /\ UNCHANGED notSplit

\* the caller takes the chunks
SplitReturn ==
    /\ kpc = "done"
    /\ kpc' = "idle"
    /\ SplitLocalsReset
    /\ UNCHANGED notSplit

InitSplit ==
    /\ kpc = "idle"
    /\ swords = <<>>
    /\ smax = 0
    /\ sover = 0
    /\ sidx = 0
    /\ schunks = <<>>

NextSplit ==
    \/ \E text \in SplitTexts, max_tokens \in (-1)..MaxTokens,
          overlap \in (-1)..(MaxTokens + 1) : SplitCall(text, max_tokens, overlap)
    \/ SplitIter
    \/ SplitExit
    \/ SplitReturn

-----------------------------------------------------------------------------
(* vectorstore_faiss.py: the files and the store object *)

\* self.index / self._meta_cache = None
None == [loaded |-> FALSE]

\* a FAISSStore right after __init__
Unloaded == [index |-> None, meta_cache |-> None]

\* an IndexFlatIP of dimension d holding the rows, built by build number gen
FlatIndex(d, rows, gen) == [loaded |-> TRUE, d |-> d, rows |-> rows, gen |-> gen]

\* a list of metadata dicts, with the build number of the file it is from
MetaList(rows, gen) == [loaded |-> TRUE, rows |-> rows, gen |-> gen]

\* faiss.write_index(index, path): the file holds the index
IndexFileOf(index) == [exists |-> TRUE, index |-> index]

\* _save_meta(meta) by build number gen: one line per record
MetaFileOf(rows, gen) == [exists |-> TRUE, rows |-> rows, gen |-> gen]

\* _load_index
LoadIndex(file) == IF file = NoFile THEN None ELSE file.index

\* _load_meta: no file gives [], bad rows are skipped
LoadMeta(file) ==
    IF file = NoFile THEN MetaList(<<>>, 0)
    ELSE MetaList(SelectSeq(file.rows, LAMBDA l : l # BadLine), file.gen)

\* the sequences of k different elements of S
Arrangements(S, k) ==
    {a \in [1..k -> S] : \A m, n \in 1..k : m # n => a[m] # a[n]}

\* what index.search(q, k) can give for an index of ntotal rows: the rows
\* are ranked by a score that is not computed here, so any min(k, ntotal)
\* rows in any order, then -1 up to k entries
FaissIdxs(ntotal, k) ==
    {a \o [m \in 1..(k - Min(k, ntotal)) |-> -1] :
        a \in Arrangements(0..(ntotal - 1), Min(k, ntotal))}

\* meta = self._meta_cache[i].copy(); meta["score"] = float(sc): the score
\* is kept as the index row it was computed for
Hit(meta, i) == [meta |-> meta, score |-> [row |-> i]]

RECURSIVE Hits(_, _)
\* the loop over zip(idxs, scores): the hits so far, or the IndexError
Hits(rows, idxs) ==
    IF idxs = <<>> THEN Returned(<<>>)
    ELSE LET i == Head(idxs)
             rest == Hits(rows, Tail(idxs))
         IN  IF i < 0 THEN rest
             ELSE IF i >= Len(rows) THEN Raised("IndexError")
             ELSE IF rest.kind = "raise" THEN rest
             ELSE Returned(<<Hit(rows[i + 1], i)>> \o rest.data)

\* search without the test "if self.index is None or not self._meta_cache"
SearchOutcomes_NoGuard(st, qvec, top_k) ==
    IF st.index = None THEN {Raised("AttributeError")}
    ELSE IF Len(qvec) # st.index.d THEN {Raised("AssertionError")}
    ELSE IF Min(top_k, Len(st.meta_cache.rows)) <= 0
    THEN {Raised("AssertionError")}
    ELSE {Hits(st.meta_cache.rows, idxs) :
             idxs \in FaissIdxs(Len(st.index.rows),
                                Min(top_k, Len(st.meta_cache.rows)))}

\* FAISSStore.search after _ensure_loaded, for the ranking idxs; a k of 0
\* is refused by the faiss module or answered with no entry, by its version
SearchOutcomes(st, qvec, top_k) ==
    IF st.index = None \/ st.meta_cache.rows = <<>> THEN {Returned(<<>>)}
    ELSE LET k == Min(top_k, Len(st.meta_cache.rows))
         IN  IF Len(qvec) # st.index.d THEN {Raised("AssertionError")}
             ELSE IF k < 0 THEN {Raised("AssertionError")}
             ELSE IF k = 0 THEN {Raised("AssertionError"), Returned(<<>>)}
             ELSE {Hits(st.meta_cache.rows, idxs) :
                      idxs \in FaissIdxs(Len(st.index.rows), k)}

-----------------------------------------------------------------------------
(* vectorstore_faiss.py: build and search, one step per file access *)

\* a metadata dict as scan_and_index hands it to build
ChunkRow(doc_id, chunk_id, text) ==
    [doc_id |-> doc_id, version_hash |-> sha256_text(text), page |-> 1,
     chunk_id |-> chunk_id, text |-> text, source |-> doc_id]

VecsA == << <<1, 0>>, <<0, 1>> >>

MetaA == <<ChunkRow("a.txt", "1-0", "cold chain storage"),
           ChunkRow("a.txt", "1-1", "donor rules")>>

VecsB == << <<1, 1, 0>>, <<0, 1, 1>>, <<1, 0, 1>> >>

MetaB == <<ChunkRow("b.txt", "1-0", "malaria deferral period"),
           ChunkRow("b.txt", "1-1", "deferral period rules"),
           ChunkRow("b.txt", "1-2", "malaria rules")>>

\* arguments of build: aligned ones and ones of different lengths
BuildInputs ==
    {[vectors |-> VecsA, meta |-> MetaA], [vectors |-> VecsB, meta |-> MetaB],
     [vectors |-> VecsA, meta |-> MetaB], [vectors |-> VecsB, meta |-> MetaA]}

QueryVectors == {<<1, 0>>, <<0, 1, 1>>}

NoArgs == [gen |-> 0]

NoQuery == [top_k |-> 0]

\* _l2_normalize: each row scaled to unit length, kept as the row it is the
\* direction of
L2Normalize(mat) == [i \in 1..Len(mat) |-> [unit_of |-> mat[i]]]

\* index = faiss.IndexFlatIP(d); index.add(vecs)
NewIndex(vectors, gen) ==
    FlatIndex(Len(vectors[1]), L2Normalize(vectors), gen)

\* the refresh that leaves a metadata list already loaded in place
AfterBuild_KeepsMetaCache(st, args) ==
    [index |-> NewIndex(args.vectors, args.gen),
     meta_cache |-> IF st.meta_cache = None THEN MetaList(args.meta, args.gen)
                    ELSE st.meta_cache]

\* the store object after "self.index = index; self._meta_cache = meta"
AfterBuild(st, args) ==
    [index |-> NewIndex(args.vectors, args.gen),
     meta_cache |-> MetaList(args.meta, args.gen)]

\* a new FAISSStore object for the directory (a process starts, or the
\* caller makes one): nothing is loaded
StoreOpen ==
    /\ bpc = "idle" /\ qpc = "idle"
    /\ store' = Unloaded
    /\ built' = NoArgs
    /\ UNCHANGED <<diskvars, pipeVec, bpc, bwho, bargs, builds, nbuilt, queryvars>>
    /\ UNCHANGED notStore

\* store.build(vectors, meta) up to _save_index: the length check, the new
\* index, its file
BuildBegin(vectors, meta) ==
    /\ bpc = "idle" /\ qpc = "idle"
    /\ builds < MaxBuilds
    /\ bwho' = "api"
    /\ IF Len(meta) # Len(vectors)
       THEN /\ bpc' = "raised"                     \* ValueError
            /\ UNCHANGED <<indexFile, bargs, builds>>
       ELSE /\ bpc' = "saved_index"
            /\ builds' = builds + 1
            /\ bargs' = [vectors |-> vectors, meta |-> meta, gen |-> builds + 1]
            /\ indexFile' = IndexFileOf(NewIndex(vectors, builds + 1))
    /\ UNCHANGED <<vecFile, fmetaFile, pipeVec, store, built, nbuilt, queryvars>>
    /\ UNCHANGED notStore

\* the rest of build: _save_meta and the refresh of the object
BuildEnd ==
    /\ bpc = "saved_index" /\ bwho = "api"
    /\ fmetaFile' = MetaFileOf(bargs.meta, bargs.gen)
    /\ store' = AfterBuild(store, bargs)
    /\ built' = bargs
    /\ nbuilt' = nbuilt + 1
    /\ bpc' = "done"
    /\ UNCHANGED <<vecFile, indexFile, pipeVec, bwho, bargs, builds, queryvars>>
    /\ UNCHANGED notStore

\* faiss_meta.jsonl when the writing process dies in build after
\* _save_index: untouched (j = -1), or opened for writing and holding the
\* first j lines, then possibly a part of the next line
MetaFileCut(file, meta, gen, j, partial) ==
    IF j < 0 THEN file
    ELSE MetaFileOf(SubSeq(meta, 1, j) \o (IF partial THEN <<BadLine>> ELSE <<>>),
                    gen)

\* the process dies between _save_index and the end of _save_meta; a new
\* process opens the store
BuildKilled(j, partial) ==
    /\ bpc = "saved_index" /\ bwho = "api"
    /\ j < Len(bargs.meta)
    /\ fmetaFile' = MetaFileCut(fmetaFile, bargs.meta, bargs.gen, j, partial)
    /\ store' = Unloaded
    /\ built' = NoArgs
    /\ bpc' = "idle"
    /\ bargs' = NoArgs
    /\ UNCHANGED <<vecFile, indexFile, pipeVec, bwho, builds, nbuilt, queryvars>>
    /\ UNCHANGED notStore

\* build has returned or raised
BuildReturn ==
    /\ bpc \in {"done", "raised"} /\ bwho = "api"
    /\ bpc' = "idle"
    /\ bargs' = NoArgs
    /\ UNCHANGED <<diskvars, pipeVec, store, bwho, builds, built, nbuilt, queryvars>>
    /\ UNCHANGED notStore

\* store.search(qvec, top_k) is called
SearchCall(qvec, top_k) ==
    /\ qpc = "idle" /\ bpc = "idle"
    /\ qvia' = "search"
    /\ qargs' = [qvec |-> qvec, top_k |-> top_k]
    /\ qpc' = "ensure_index"
    /\ UNCHANGED <<diskvars, pipeVec, store, buildvars, qhits, qscores, qout>>
    /\ UNCHANGED notStore

\* _ensure_loaded, first half
EnsureIndex ==
    /\ qpc = "ensure_index"
    /\ bpc = "idle" \/ bwho = "main"
    /\ store' = IF store.index = None
                THEN [store EXCEPT !.index = LoadIndex(indexFile)] ELSE store
    /\ qpc' = "ensure_meta"
    /\ UNCHANGED <<diskvars, pipeVec, buildvars, qvia, qargs, qhits, qscores, qout>>
    /\ UNCHANGED notStore

\* _ensure_loaded, second half
EnsureMeta ==
    /\ qpc = "ensure_meta"
    /\ bpc = "idle" \/ bwho = "main"
    /\ store' = IF store.meta_cache = None
                THEN [store EXCEPT !.meta_cache = LoadMeta(fmetaFile)] ELSE store
    /\ qpc' = "search"
    /\ UNCHANGED <<diskvars, pipeVec, buildvars, qvia, qargs, qhits, qscores, qout>>
    /\ UNCHANGED notStore

\* search after _ensure_loaded, called directly
SearchCompute ==
    /\ qpc = "search" /\ qvia = "search"
    /\ \E out \in SearchOutcomes(store, qargs.qvec, qargs.top_k) : qout' = out
    /\ qpc' = "done"
    /\ UNCHANGED <<diskvars, pipeVec, store, buildvars, qvia, qargs, qhits, qscores>>
    /\ UNCHANGED notStore

\* the caller takes the outcome
QueryReturn ==
    /\ qpc = "done"
    /\ qpc' = "idle"
    /\ qvia' = "none"
    /\ qargs' = NoQuery
    /\ qhits' = <<>>
    /\ qscores' = <<>>
    /\ qout' = NoResult
    /\ UNCHANGED <<diskvars, pipeVec, store, buildvars>>
    /\ UNCHANGED notStore

InitStore ==
    /\ vecFile = NoFile
    /\ indexFile = NoFile
    /\ fmetaFile = NoFile
    /\ pipeVec = None
    /\ store = Unloaded
    /\ bpc = "idle"
    /\ bwho = "none"
    /\ bargs = NoArgs
    /\ builds = 0
    /\ built = NoArgs
    /\ nbuilt = 0
    /\ qpc = "idle"
    /\ qvia = "none"
    /\ qargs = NoQuery
    /\ qhits = <<>>
    /\ qscores = <<>>
    /\ qout = NoResult

NextStore ==
    \/ StoreOpen
    \/ \E b \in BuildInputs : BuildBegin(b.vectors, b.meta)
    \/ BuildEnd
    \/ \E j \in (-1)..2, partial \in BOOLEAN : BuildKilled(j, partial)
    \/ BuildReturn
    \/ \E qvec \in QueryVectors, top_k \in 0..MaxTopK : SearchCall(qvec, top_k)
    \/ EnsureIndex
    \/ EnsureMeta
    \/ SearchCompute
    \/ QueryReturn

-----------------------------------------------------------------------------
(* rag.py: query expansion and the embedder *)

TempSynonyms ==
    <<"2~8 C", "2 - 8 C", "2 to 8 C", "2-8 C", "2-8C",
      "refrigerated", "cold chain", "controlled temperature",
      "storage and transportation", "transport", "shipping", "Section 24",
      "TGO 109">>

MalariaSynonyms ==
    <<"malaria", "malaria-endemic", "endemic region", "ineligib", "deferr",
      "period of ineligibility">>

DeferralSynonyms ==
    <<"deferral", "period of ineligibility", "ineligible", "donor eligibility",
      "exclusion", "contraindicated">>

RECURSIVE Unique(_)
\* list(dict.fromkeys(seq)): first occurrences, in order
Unique(seq) ==
    IF seq = <<>> THEN <<>>
    ELSE LET front == Unique(SubSeq(seq, 1, Len(seq) - 1))
             last  == seq[Len(seq)]
         IN  IF \E i \in 1..Len(front) : front[i] = last THEN front
             ELSE Append(front, last)

\* _expand_query without the cut [:12]
ExpandQuery_NoCap(q) ==
    LET ql == Lower(q)
        temp == \E k \in {"2~8", "2-8", "2 to 8", "refriger", "cold chain",
                           "transport", "shipping", "storage"} : Contains(ql, k)
        mal  == Contains(ql, "malaria") \/ Contains(ql, "endemic")
        def  == \E k \in {"deferr", "ineligib", "exclusion", "eligib"} :
                    Contains(ql, k)
        extra == (IF temp THEN TempSynonyms ELSE <<>>)
                 \o (IF mal THEN MalariaSynonyms ELSE <<>>)
                 \o (IF def THEN DeferralSynonyms ELSE <<>>)
    IN  IF extra = <<>> THEN q
        ELSE q \o " " \o Join(" ", Unique(extra))

\* _expand_query
ExpandQuery(q) ==
    LET ql == Lower(q)
        temp == \E k \in {"2~8", "2-8", "2 to 8", "refriger", "cold chain",
                           "transport", "shipping", "storage"} : Contains(ql, k)
        mal  == Contains(ql, "malaria") \/ Contains(ql, "endemic")
        def  == \E k \in {"deferr", "ineligib", "exclusion", "eligib"} :
                    Contains(ql, k)
        extra == (IF temp THEN TempSynonyms ELSE <<>>)
                 \o (IF mal THEN MalariaSynonyms ELSE <<>>)
                 \o (IF def THEN DeferralSynonyms ELSE <<>>)
    IN  IF extra = <<>> THEN q
        ELSE q \o " " \o Join(" ", SubSeq(Unique(extra), 1, Min(12, Len(Unique(extra)))))

\* the phrases questions are made of: with and without trigger keywords
Phrases == {"Cold Chain", "storage", "Malaria", "deferral", "rules", "donor"}

ExpandQuestions ==
    {Join(" ", ph) : ph \in UNION {[1..n -> Phrases] : n \in 0..MaxPhrases}}

\* a caller (retrieve) calls _expand_query(q)
ExpandCall(q) ==
    /\ xout = NoResult
    /\ xq' = q
    /\ xout' = Returned(ExpandQuery(q))
    /\ UNCHANGED notExpand

\* the caller takes the expanded query
ExpandReturn ==
    /\ xout # NoResult
    /\ xq' = ""
    /\ xout' = NoResult
    /\ UNCHANGED notExpand

InitExpand ==
    /\ xq = ""
    /\ xout = NoResult

NextExpand ==
    \/ \E q \in ExpandQuestions : ExpandCall(q)
    \/ ExpandReturn

\* number of times the term (a word or two words) occurs in the text
TermCount(text, t) ==
    LET w == Tokens(text)
    IN  Cardinality({i \in 1..Len(w) : w[i] = t})
        + Cardinality({i \in 1..(Len(w) - 1) : w[i] \o " " \o w[i + 1] = t})

\* a fitted TfidfVectorizer: its features in their sorted order, and the
\* build number of the run that fitted it
Fitted(vocabulary, gen) ==
    [loaded |-> TRUE, features |-> SortedNames(vocabulary), gen |-> gen]

\* vec.transform([text]) / a row of fit_transform: one entry per feature;
\* the entry is the term count, the idf weight and the norm left out
Transform(vec, text) ==
    [i \in 1..Len(vec.features) |-> TermCount(text, vec.features[i])]

\* joblib.dump(vec, path) / joblib.load(path)
VecFileOf(vec) == [exists |-> TRUE, vec |-> vec]

\* TFIDFEmbedder.__init__
LoadVec(file) == IF file = NoFile THEN None ELSE file.vec

-----------------------------------------------------------------------------
(* server.py, ingest.py, rag.py: reindex runs and queries of a server *)

CorpusC == <<ChunkRow("c.txt", "1-0", "cold chain storage"),
             ChunkRow("c.txt", "1-1", "cold chain transport"),
             ChunkRow("d.txt", "1-0", "donor rules")>>

CorpusD == <<ChunkRow("d.txt", "1-0", "donor rules apply"),
             ChunkRow("d.txt", "1-1", "donor rules differ"),
             ChunkRow("c.txt", "1-0", "cold storage")>>

\* "\n\n".join(p["text"] for p in pages)
FullText(pages) == Join("\n\n", [i \in 1..Len(pages) |-> pages[i].text])

\* the chunk records a loop iteration of scan_and_index writes for pages
\* read at their latest version
SourceChunks(doc_id, pages) ==
    ChunkRecords(doc_id, sha256_text(FullText(pages)), pages)

\* chunks.jsonl of a run over data/raw/a.txt and a data/web_urls.txt that
\* lists one URL on two lines: one record of the file, two of the page
CorpusTwice ==
    SourceChunks("a.txt", TxtPages("storage at 2-8 C required").pages)
    \o SourceChunks(Url, WebPagesOf(WebText(Url)).pages)
    \o SourceChunks(Url, WebPagesOf(WebText(Url)).pages)

\* what a run of scan_and_index can read back from chunks.jsonl: corpora
\* with vocabularies of 5, 3, 3 and 5 terms, and one the vectorizer rejects
Corpora == {MetaB, CorpusC, CorpusD, CorpusTwice, MetaA}

TextsOf(corpus) == [i \in 1..Len(corpus) |-> corpus[i].text]

\* vec.fit(texts) of each corpus
FitOf == [c \in Corpora |-> FitVocabulary(TextsOf(c))]

\* X = vec.fit_transform(texts) of each corpus that can be fitted
FitTransformOf ==
    [c \in {x \in Corpora : FitOf[x].ok} |->
        [i \in 1..Len(c) |-> Transform(Fitted(FitOf[c].vocabulary, 0), c[i].text)]]

RetrieveQuestions == {"cold chain", "Malaria deferral rules"}

\* self.embed([_expand_query(question)]) for each fitted vectorizer a run
\* can dump and each question, computed once
EmbedQuery ==
    [f \in {Fitted(FitOf[c].vocabulary, 0).features :
                c \in {x \in Corpora : FitOf[x].ok}} |->
        [q \in RetrieveQuestions |->
            Transform([features |-> f], ExpandQuery(q))]]

\* scan_and_index through joblib.dump, run by the /reindex handler of this
\* server (who = "reindex": no other handler runs meanwhile) or by another
\* process, ingest.py or another worker (who = "main"); the chunks it read
\* back are the corpus
ReindexBegin(who, corpus) ==
    /\ bpc = "idle"
    /\ builds < MaxBuilds
    /\ who = "reindex" => qpc = "idle"
    /\ bwho' = who
    /\ IF ~FitOf[corpus].ok
       THEN /\ bpc' = "raised"                     \* ValueError of fit
            /\ UNCHANGED <<vecFile, bargs, builds>>
       ELSE /\ bpc' = "dumped"
            /\ builds' = builds + 1
            /\ vecFile' = VecFileOf(Fitted(FitOf[corpus].vocabulary, builds + 1))
            /\ bargs' = [vectors |-> FitTransformOf[corpus], meta |-> corpus,
                         gen |-> builds + 1]
    /\ UNCHANGED <<indexFile, fmetaFile, pipeVec, store, built, nbuilt, queryvars>>
    /\ UNCHANGED notStore

\* store.build(X, meta) of the run, up to _save_index
ReindexSaveIndex ==
    /\ bpc = "dumped"
    /\ indexFile' = IndexFileOf(NewIndex(bargs.vectors, bargs.gen))
    /\ bpc' = "saved_index"
    /\ UNCHANGED <<vecFile, fmetaFile, pipeVec, store, bwho, bargs, builds,
                   built, nbuilt, queryvars>>
    /\ UNCHANGED notStore

\* the rest of build: _save_meta; the store object of the run is its own
ReindexSaveMeta ==
    /\ bpc = "saved_index" /\ bwho \in {"reindex", "main"}
    /\ fmetaFile' = MetaFileOf(bargs.meta, bargs.gen)
    /\ nbuilt' = nbuilt + 1
    /\ bpc' = "done"
    /\ UNCHANGED <<vecFile, indexFile, pipeVec, store, bwho, bargs, builds,
                   built, queryvars>>
    /\ UNCHANGED notStore

\* scan_and_index is over; the /reindex handler then replaces PIPE.index (if
\* the run did not raise), PIPE.embedder stays
ReindexEnd ==
    /\ bpc \in {"done", "raised"} /\ bwho \in {"reindex", "main"}
    /\ store' = IF bwho = "reindex" /\ bpc = "done" THEN Unloaded ELSE store
    /\ bpc' = "idle"
    /\ bargs' = NoArgs
    /\ UNCHANGED <<diskvars, pipeVec, bwho, builds, built, nbuilt, queryvars>>
    /\ UNCHANGED notStore

\* the server process starts: PIPE = RAGPipeline(index_dir="data/index")
ServerStart ==
    /\ qpc = "idle"
    /\ bpc = "idle" \/ bwho = "main"
    /\ store' = Unloaded
    /\ pipeVec' = LoadVec(vecFile)
    /\ UNCHANGED <<diskvars, buildvars, queryvars>>
    /\ UNCHANGED notStore

\* q_expanded.lower().split() for each question, computed once
QueryTokens ==
    [q \in RetrieveQuestions |->
        LET w == LongWords(ExpandQuery(q))
        IN  {Lower(w[k]) : k \in 1..Len(w)}]

\* doc.lower().split() of build_bm25, as a set
DocTokens(text) == LET w == Words(Lower(text)) IN {w[k] : k \in 1..Len(w)}

\* the values a BM25 score is compared by: below 0, 0, above 0 (the idf of
\* a term in more than half of the candidates is taken from the mean idf,
\* which can be negative)
ScoreValues == {-1, 0, 1}

\* bm25.get_scores(query tokens) over the candidate texts: the weights are
\* not computed here; a candidate without any query token scores 0 and
\* candidates with the same text score the same
BM25Scores(hits, q) ==
    {s \in [1..Len(hits) -> ScoreValues] :
        /\ \A j \in 1..Len(hits) :
              DocTokens(hits[j].meta.text) \cap QueryTokens[q] = {} => s[j] = 0
        /\ \A i, j \in 1..Len(hits) :
              hits[i].meta.text = hits[j].meta.text => s[i] = s[j]}

\* np.argsort(-scores): the default sort (quicksort) orders by descending
\* score and gives no order to equal scores
Argsort(scores) ==
    {order \in Arrangements(1..Len(scores), Len(scores)) :
        \A a, b \in 1..Len(scores) :
            a < b => scores[order[a]] >= scores[order[b]]}

\* the orders retrieve can return without the cut
RerankOrders_NoCut(scores, top_k) == Argsort(scores)

\* np.argsort(-scores)[:top_k]
RerankOrders(scores, top_k) ==
    {PySlice(order, 0, top_k) : order \in Argsort(scores)}

\* [dense_hits[i] | {"_bm25": float(scores[i])} for i in order]
Reranked(hits, scores, order) ==
    [j \in 1..Len(order) |->
        [meta |-> hits[order[j]].meta, score |-> hits[order[j]].score,
         bm25 |-> scores[order[j]]]]

\* PIPE.retrieve(question, top_k) up to self.index.search: without a fitted
\* vectorizer it returns [], else it embeds the expanded question
RetrieveCall(q, top_k) ==
    /\ qpc = "idle"
    /\ bpc = "idle" \/ bwho = "main"
    /\ qvia' = "retrieve"
    /\ IF pipeVec = None
       THEN /\ qargs' = [question |-> q, k |-> top_k, top_k |-> top_k * 2,
                         qvec |-> <<>>, vecgen |-> 0]
            /\ qout' = Returned(<<>>)
            /\ qpc' = "done"
       ELSE /\ qargs' = [question |-> q, k |-> top_k, top_k |-> top_k * 2,
                         qvec |-> EmbedQuery[pipeVec.features][q],
                         vecgen |-> pipeVec.gen]
            /\ qout' = NoResult
            /\ qpc' = "ensure_index"
    /\ UNCHANGED <<diskvars, pipeVec, store, buildvars, qhits, qscores>>
    /\ UNCHANGED notStore

\* self.index.search(qvec, top_k=top_k*2) after _ensure_loaded, and
\* "if not dense_hits: return []"
RetrieveSearch ==
    /\ qpc = "search" /\ qvia = "retrieve"
    /\ \E out \in SearchOutcomes(store, qargs.qvec, qargs.top_k) :
          IF out.kind = "raise"
          THEN qout' = out /\ qpc' = "done" /\ UNCHANGED qhits
          ELSE IF out.data = <<>>
          THEN qout' = Returned(<<>>) /\ qpc' = "done" /\ UNCHANGED qhits
          ELSE qhits' = out.data /\ qpc' = "rerank" /\ UNCHANGED qout
    /\ UNCHANGED <<diskvars, pipeVec, store, buildvars, qvia, qargs, qscores>>
    /\ UNCHANGED notStore

\* the BM25 scores of the dense hits, their rerank and the cut at top_k
RetrieveRerank ==
    /\ qpc = "rerank"
    /\ \E scores \in BM25Scores(qhits, qargs.question) :
          /\ qscores' = scores
          /\ \E order \in RerankOrders(scores, qargs.k) :
                qout' = Returned(Reranked(qhits, scores, order))
    /\ qpc' = "done"
    /\ UNCHANGED <<diskvars, pipeVec, store, buildvars, qvia, qargs, qhits>>
    /\ UNCHANGED notStore

NextServer ==
    \/ \E who \in {"reindex", "main"}, corpus \in Corpora : ReindexBegin(who, corpus)
    \/ ReindexSaveIndex
    \/ ReindexSaveMeta
    \/ ReindexEnd
    \/ ServerStart
    \/ \E q \in RetrieveQuestions, top_k \in 0..MaxTopK : RetrieveCall(q, top_k)
    \/ EnsureIndex
    \/ EnsureMeta
    \/ RetrieveSearch
    \/ RetrieveRerank
    \/ QueryReturn

-----------------------------------------------------------------------------
(* llm.py: _post_chat, one step per request and per sleep *)

\* what a request can meet: a 2xx response with the message content, a 2xx
\* response whose body lacks it, a response with another status, or an
\* exception of the client
Content(text) == [kind |-> "content", text |-> text]

NoContent == [kind |-> "no content"]

Status(code) == [kind |-> "status", code |-> code]

ClientExc(e) == [kind |-> "exc", exc |-> e]

NoResp == [kind |-> "none"]

\* no exception: last_err = None
NoErr == [kind |-> "no error"]

StatusCodes == {301, 400, 401, 404, 429, 500, 501, 502, 503, 504, 529}

\* the exceptions of httpx a request can raise
ClientExcs ==
    {"ReadTimeout", "ConnectTimeout", "WriteTimeout", "PoolTimeout",
     "RemoteProtocolError", "ConnectError"}

Responses ==
    {Content(" {\"compliance_status\": \"Unclear\"}\n"), NoContent}
    \cup {Status(c) : c \in StatusCodes}
    \cup {ClientExc(e) : e \in ClientExcs}

\* except (httpx.ReadTimeout, httpx.ConnectTimeout, httpx.RemoteProtocolError)
Caught(e) == e \in {"ReadTimeout", "ConnectTimeout", "RemoteProtocolError"}

\* the test with every status error taken for a retryable one
Retryable_AnyStatus(code) == TRUE

\* status_code in (429, 500, 502, 503, 504)
Retryable(code) == code \in {429, 500, 502, 503, 504}

PostChatLocalsReset ==
    /\ lretries' = 0
    /\ lattempt' = 0
    /\ llast' = NoErr
    /\ lreqs' = 0
    /\ lsleeps' = 0
    /\ lresp' = NoResp

\* the process imports llm.py: OPENAI_KEY is read from the environment once
LlmImport(key) ==
    /\ lpc = "idle"
    /\ lkey' = key
    /\ UNCHANGED <<lpc, lretries, lattempt, llast, lreqs, lsleeps, lresp, lout>>
    /\ UNCHANGED notLlm

\* _post_chat up to the loop: the key test, last_err = None
PostChatCall(retries) ==
    /\ lpc = "idle"
    /\ lretries' = retries
    /\ lattempt' = 0
    /\ llast' = NoErr
    /\ lreqs' = 0
    /\ lsleeps' = 0
    /\ lresp' = NoResp
    /\ IF ~lkey
       THEN lout' = Raised("RuntimeError: OPENAI_API_KEY not set") /\ lpc' = "done"
       ELSE lout' = NoResult /\ lpc' = "request"
    /\ UNCHANGED lkey
    /\ UNCHANGED notLlm

\* the body of the try of one loop iteration and the except clause it
\* ends in: return, raise, or go on to the sleep
PostChatRequest(resp) ==
    /\ lpc = "request"
    /\ lattempt < lretries
    /\ lreqs' = lreqs + 1
    /\ lresp' = resp
    /\ CASE resp.kind = "content" ->
              /\ lout' = Returned(Strip(resp.text))
              /\ lpc' = "done"
              /\ UNCHANGED llast
         [] resp.kind = "no content" ->    \* r.json()[...], .strip() on None
              /\ lout' = Raised("KeyError")
              /\ lpc' = "done"
              /\ UNCHANGED llast
         [] resp.kind = "exc" /\ Caught(resp.exc) ->
              /\ llast' = resp
              /\ lpc' = "sleep"
              /\ UNCHANGED lout
         [] resp.kind = "exc" /\ ~Caught(resp.exc) ->
              /\ lout' = Raised(resp.exc)
              /\ lpc' = "done"
              /\ UNCHANGED llast
         [] resp.kind = "status" /\ Retryable(resp.code) ->
              /\ llast' = resp
              /\ lpc' = "sleep"
              /\ UNCHANGED lout
         [] resp.kind = "status" /\ ~Retryable(resp.code) ->
              /\ lout' = Raised("HTTPStatusError " \o ToString(resp.code))
              /\ lpc' = "done"
              /\ UNCHANGED llast
    /\ UNCHANGED <<lkey, lretries, lattempt, lsleeps>>
    /\ UNCHANGED notLlm

\* time.sleep(1.5 ** attempt + jitter), then the next value of range(retries)
PostChatSleep ==
    /\ lpc = "sleep"
    /\ lsleeps' = lsleeps + 1
    /\ lattempt' = lattempt + 1
    /\ lpc' = "request"
    /\ UNCHANGED <<lkey, lretries, llast, lreqs, lresp, lout>>
    /\ UNCHANGED notLlm

\* range(retries) is used up: raise last_err if last_err else RuntimeError
PostChatExhausted ==
    /\ lpc = "request"
    /\ lattempt >= lretries
    /\ lout' = IF llast = NoErr THEN Raised("RuntimeError: OpenAI request failed")
               ELSE IF llast.kind = "exc" THEN Raised(llast.exc)
               ELSE Raised("HTTPStatusError " \o ToString(llast.code))
    /\ lpc' = "done"
    /\ UNCHANGED <<lkey, lretries, lattempt, llast, lreqs, lsleeps, lresp>>
    /\ UNCHANGED notLlm

\* the caller (generate, and answer behind it) takes the outcome
PostChatReturn ==
    /\ lpc = "done"
    /\ lpc' = "idle"
    /\ lout' = NoResult
    /\ PostChatLocalsReset
    /\ UNCHANGED lkey
    /\ UNCHANGED notLlm

InitLlm ==
    /\ lkey = FALSE
    /\ lpc = "idle"
    /\ lretries = 0
    /\ lattempt = 0
    /\ llast = NoErr
    /\ lreqs = 0
    /\ lsleeps = 0
    /\ lresp = NoResp
    /\ lout = NoResult

NextLlm ==
    \/ \E key \in BOOLEAN : LlmImport(key)
    \/ \E retries \in 0..MaxRetries : PostChatCall(retries)
    \/ \E resp \in Responses : PostChatRequest(resp)
    \/ PostChatSleep
    \/ PostChatExhausted
    \/ PostChatReturn

-----------------------------------------------------------------------------
(* Specifications *)

Init ==
    InitAnswer /\ InitIngest /\ InitSplit /\ InitStore /\ InitLlm /\ InitExpand

\* query expansion alone, over questions of a few phrases
SpecExpand == Init /\ [][NextExpand]_vars

\* the generation client alone; a running call is not suspended for ever
SpecLlm ==
    Init /\ [][NextLlm]_vars
    /\ WF_vars(\E resp \in Responses : PostChatRequest(resp))
    /\ WF_vars(PostChatSleep) /\ WF_vars(PostChatExhausted)

\* a server process, its queries and the reindex runs beside them
SpecServer == Init /\ [][NextServer]_vars

\* the dense store object alone: builds and searches of one caller
SpecStore == Init /\ [][NextStore]_vars

\* the chunker alone; a running call is not suspended for ever
SpecSplit ==
    Init /\ [][NextSplit]_vars /\ WF_vars(SplitIter) /\ WF_vars(SplitExit)

\* the answer assembler, the ingestion state left alone
SpecAnswer == Init /\ [][NextAnswer]_vars

\* the ingestion, the assembler left alone
SpecIngest == Init /\ [][NextIngest]_vars

\* the ingestion started on a manifest left from before
SpecLegacy == Init /\ [][NextLegacy]_vars

-----------------------------------------------------------------------------
(* Properties of the version manifest *)

\* C8: a registration of a doc_id with a text whose version_hash is already
\* recorded for that doc_id appends no row; so no (doc_id, version_hash) is
\* ever on two rows of the manifest.
C8_RegistrationIdempotent ==
    \A i, j \in 1..Len(metaFile) :
        (i < j /\ metaFile[i].doc_id = metaFile[j].doc_id)
            => metaFile[i].version_hash # metaFile[j].version_hash

\* C9: the manifest is append-only: every step leaves the rows there were
\* in place and unchanged, so their number never decreases.
C9_ManifestAppendOnly ==
    [][/\ Len(metaFile') >= Len(metaFile)
       /\ SubSeq(metaFile', 1, Len(metaFile)) = metaFile]_vars

\* C9 witness: a run has ended with rows appended behind older rows
C9_Witness ==
    /\ spc = "ended"
    /\ Len(metaFile) >= 3
    /\ StrLess(metaFile[1].created_at, metaFile[Len(metaFile)].created_at)

\* the clock tick a timestamp was taken at
TickOf(ts) == CHOOSE c \in 0..MaxClock : now_iso(c) = ts

Rows(file) == IF file = NoFile THEN <<>> ELSE file.rows

\* C10: in every loop iteration of scan_and_index, the version taken as
\* latest is one of the versions the loaded manifest has for the doc_id or
\* the version just registered, none of those has a later created_at, and
\* its version_hash is on every chunk record the iteration writes.
C10_LatestIsNewest ==
    [][(spc = "loop" /\ si' = si + 1) =>
         LET doc   == sources[si + 1].id
             known == {manifest[i] : i \in {k \in 1..Len(manifest) :
                                               manifest[k].doc_id = doc}}
                      \cup (IF metaFile' # metaFile
                            THEN {metaFile'[Len(metaFile')]} ELSE {})
         IN  /\ latest' \in known
             /\ \A v \in known :
                   TickOf(v.created_at) <= TickOf(latest'.created_at)
             /\ \A i \in (Len(Rows(chunksFile)) + 1)..Len(Rows(chunksFile')) :
                   /\ Rows(chunksFile')[i].doc_id = doc
                   /\ Rows(chunksFile')[i].version_hash = latest'.version_hash
      ]_vars

\* C10 witness: an iteration met a content whose hash is an older version:
\* the latest is the second version known, newer than the first, and a chunk
\* record was written
C10_Witness ==
    /\ spc = "loop"
    /\ si > 0
    /\ Len(versions) >= 2
    /\ latest = versions[2]
    /\ StrLess(versions[1].created_at, versions[2].created_at)
    /\ Rows(chunksFile) # <<>>

-----------------------------------------------------------------------------
(* Properties of a scan_and_index run *)

\* C11: a failure to read one source skips only that source: while sources
\* are left in the loop of scan_and_index, no step ends the run, the run goes
\* on to the remaining sources.
C11_ReadFailureSkipsSource ==
    [][(spc = "loop" /\ si < Len(sources))
          => (spc' = "loop" /\ scanOutcome' = "running")]_vars

\* C14: in the chunk records of a run every chunk_id is "p-i" for the page p
\* of the record, and no two records share (doc_id, version_hash, chunk_id).
C14_ChunkIdsUnique ==
    LET rows == Rows(chunksFile)
    IN  /\ \A n \in 1..Len(rows) :
              \E k \in 0..Len(rows) :
                  rows[n].chunk_id = ToString(rows[n].page) \o "-" \o ToString(k)
        /\ \A m, n \in 1..Len(rows) :
              (m < n /\ rows[m].doc_id = rows[n].doc_id
                     /\ rows[m].version_hash = rows[n].version_hash)
                  => rows[m].chunk_id # rows[n].chunk_id

-----------------------------------------------------------------------------
(* Properties of the chunker *)

\* C12: split_into_chunks terminates for every text and all integers
\* max_tokens and overlap, overlap >= max_tokens included: every loop
\* iteration moves the window start forward by max(1, max_tokens - overlap),
\* which is at least 1, and every call that entered the loop leaves it.
C12_SplitTerminates ==
    /\ [][(kpc = "loop" /\ sidx' # sidx) =>
             /\ sidx' = sidx + Max(1, smax - sover)
             /\ sidx' >= sidx + 1]_vars
    /\ [][(kpc = "loop" /\ schunks' # schunks) => sidx' >= sidx + 1]_vars
    /\ (kpc = "loop") ~> (kpc = "done")

\* C12 witness: a call with overlap >= max_tokens has returned after more
\* than one iteration
C12_Witness ==
    /\ kpc = "done"
    /\ sover >= smax
    /\ Len(schunks) >= 2

\* every token of words is in a chunk that is a run of consecutive tokens,
\* and the chunks are in the order of their windows
Covers(words, chunks) ==
    /\ \A p \in 1..Len(words) :
          \E j \in 1..Len(chunks), a \in 1..p, b \in p..Len(words) :
              chunks[j] = Join(" ", SubSeq(words, a, b))
    /\ \A j \in 1..Len(chunks) :
          \E a \in 1..Len(words), b \in 1..Len(words) :
              /\ a <= b
              /\ chunks[j] = Join(" ", SubSeq(words, a, b))
              /\ \A k \in 1..(j - 1) :
                    \E c \in 1..a : \E d \in c..Len(words) :
                        chunks[k] = Join(" ", SubSeq(words, c, d))

\* C13 as stated: for all texts and all max_tokens, overlap with
\* overlap < max_tokens, the chunks returned cover every token of the text.
C13_CoverageAnyOverlap ==
    (kpc = "done" /\ sover < smax) => Covers(swords, schunks)

\* C13 amended: for all texts and all max_tokens, overlap with
\* 0 <= overlap < max_tokens, the chunks returned cover every token of the
\* text, each chunk a run of consecutive tokens, in order.
C13_CoverageWithOverlap ==
    (kpc = "done" /\ 0 <= sover /\ sover < smax) => Covers(swords, schunks)

\* C13 witness: a call with 0 < overlap < max_tokens has returned several
\* chunks of a text longer than one window
C13_Witness ==
    /\ kpc = "done"
    /\ 0 < sover /\ sover < smax
    /\ Len(swords) > smax
    /\ Len(schunks) >= 2
    /\ Covers(swords, schunks)

-----------------------------------------------------------------------------
(* Properties of the dense store *)

\* C15: after a successful build(vectors, meta) on a store in any prior
\* state, the store holds exactly the given rows and nothing from before,
\* and a search hit on index row i is meta[i] with its score.
C15_BuildReplacesAndAligns ==
    built # NoArgs =>
        /\ store.index.rows = L2Normalize(built.vectors)
        /\ store.meta_cache.rows = built.meta
        /\ Len(store.index.rows) = Len(store.meta_cache.rows)
        /\ (qpc = "done" /\ qout.kind = "return") =>
              \A j \in 1..Len(qout.data) :
                  /\ qout.data[j].score.row \in 0..(Len(built.meta) - 1)
                  /\ qout.data[j].meta = built.meta[qout.data[j].score.row + 1]

\* C15 witness: a search on a store built a second time, over the rows of
\* its first build, has returned two hits
C15_Witness ==
    /\ built # NoArgs /\ built.gen = 2 /\ nbuilt = 2
    /\ qpc = "done" /\ qout.kind = "return"
    /\ Len(qout.data) = 2

\* the index and the metadata a store object holds are one pair
Consistent(st) ==
    IF st.index = None THEN st.meta_cache.rows = <<>>
    ELSE /\ Len(st.index.rows) = Len(st.meta_cache.rows)
         /\ st.index.gen = st.meta_cache.gen

\* C17: an index/metadata pair on disk that is inconsistent is never taken
\* as valid on reload: a search never returns, with results or without,
\* from a store that loaded such a pair.
C17_InconsistentPairNeverServed ==
    (qpc = "done" /\ qout.kind = "return") => Consistent(store)

-----------------------------------------------------------------------------
(* Properties of retrieval on a server *)

\* C16: on a store for which no build has ever succeeded (no index file, or
\* no metadata), search returns an empty list without raising, and so does
\* retrieve.
C16_EmptyStoreEmptyResult ==
    (/\ nbuilt = 0
     /\ indexFile = NoFile \/ LoadMeta(fmetaFile).rows = <<>>)
    => /\ qpc = "rerank" => FALSE
       /\ qpc = "done" => qout = Returned(<<>>)

\* C16 witness: retrieve, with a fitted vectorizer loaded, has searched a
\* directory in which no build has succeeded, and has returned
C16_Witness ==
    /\ nbuilt = 0
    /\ qpc = "done" /\ qvia = "retrieve"
    /\ pipeVec # None
    /\ store.index = None
    /\ store.meta_cache # None
    /\ qout = Returned(<<>>)

\* C18: a query that runs while a reindex is in progress uses an index and
\* metadata of one and the same generation, both old or both new: the index
\* and the non-empty metadata list its search works on are of one build.
C18_QuerySeesOneGeneration ==
    (qvia = "retrieve" /\ qpc \in {"search", "rerank", "done"}
        /\ store.index # None /\ store.meta_cache # None
        /\ store.meta_cache.rows # <<>>)
    => /\ store.index.gen = store.meta_cache.gen
       /\ Len(store.index.rows) = Len(store.meta_cache.rows)

\* C19: the vectorizer state a query is embedded with is the fitted state of
\* the run that built the dense store the query searches: same reindex
\* generation, same dimension; stated for the queries made while no reindex
\* is running.
C19_VectorizerMatchesStore ==
    (qvia = "retrieve" /\ qpc \in {"search", "rerank", "done"}
        /\ bpc = "idle" /\ bwho = "reindex"
        /\ qargs.vecgen # 0 /\ store.index # None)
    => /\ qargs.vecgen = store.index.gen
       /\ Len(qargs.qvec) = store.index.d

\* C20: retrieve(question, top_k) returns at most top_k passages, for every
\* question, every number top_k and every content of the index.
C20_RetrieveAtMostTopK ==
    (qvia = "retrieve" /\ qpc = "done" /\ qout.kind = "return")
    => Len(qout.data) <= qargs.k

\* C20 witness: the dense search gave more than top_k hits and retrieve has
\* returned top_k of them
C20_Witness ==
    /\ qvia = "retrieve" /\ qpc = "done" /\ qout.kind = "return"
    /\ qargs.k >= 1
    /\ Len(qhits) > qargs.k
    /\ Len(qout.data) = qargs.k

\* the key of a retrieved passage
PassageKey(h) == <<h.meta.doc_id, h.meta.version_hash, h.meta.chunk_id>>

\* C21: the passages retrieve returns never hold two entries with the same
\* (doc_id, version_hash, chunk_id), for every index a scan_and_index run
\* produced.
C21_NoDuplicatePassages ==
    (qvia = "retrieve" /\ qpc = "done" /\ qout.kind = "return")
    => \A m, n \in 1..Len(qout.data) :
          m < n => PassageKey(qout.data[m]) # PassageKey(qout.data[n])

\* a run of scan_and_index has built the store files from a.txt and a URL
\* listed twice
RunWritesCorpusTwice ==
    storeFiles # NoFile /\ storeFiles.meta = CorpusTwice

\* C22: a retrieve call on a pipeline whose vectorizer has never been fit
\* (none was loaded), or in whose directory no dense store was ever built,
\* ends with an exception, not with a returned (empty) list.
C22_NotReadyFailsExplicitly ==
    (qvia = "retrieve" /\ qpc = "done" /\ (pipeVec = None \/ nbuilt = 0))
    => qout.kind = "raise"

-----------------------------------------------------------------------------
(* Properties of the generation client *)

TimeoutExcs == {"ReadTimeout", "ConnectTimeout", "WriteTimeout", "PoolTimeout"}

\* a timeout, rate limiting (429) or a server error (5xx)
Transient(resp) ==
    \/ resp.kind = "exc" /\ resp.exc \in TimeoutExcs
    \/ resp.kind = "status" /\ (resp.code = 429 \/ resp.code \in 500..599)

\* a status error other than 429 and 5xx
ClientError(resp) ==
    resp.kind = "status" /\ resp.code # 429 /\ resp.code \notin 500..599

\* a step in which the call sends a request
Requests == lpc = "request" /\ lreqs' = lreqs + 1

\* C23: _post_chat retries transient failures within its budget: an attempt
\* that fails with a timeout, 429 or 5xx while attempts are left goes on to
\* the backoff sleep, and the sleep to one more request; the requests never
\* exceed retries; a successful attempt returns at once; and a call that
\* ends without a successful attempt raises.
C23_TransientFailuresRetried ==
    /\ [][(Requests /\ Transient(lresp') /\ lreqs' < lretries)
             => lpc' = "sleep"]_vars
    /\ \A n \in 0..(MaxRetries + 1) :
          (lpc = "sleep" /\ lreqs = n /\ n < lretries) ~> (lreqs = n + 1)
    /\ [](lreqs <= lretries)
    /\ [][(Requests /\ lresp'.kind = "content")
             => /\ lpc' = "done"
                /\ lout' = Returned(Strip(lresp'.text))
                /\ lsleeps' = lsleeps]_vars
    /\ []((lpc = "done" /\ lresp.kind # "content") => lout.kind = "raise")

\* C24: a status error other than 429 and 5xx is raised on the attempt where
\* it occurs, with no sleep for it and no request after it, and without an
\* API key the call raises before any request.
C24_ClientErrorNotRetried ==
    /\ [][(Requests /\ ClientError(lresp'))
             => /\ lpc' = "done"
                /\ lout' = Raised("HTTPStatusError " \o ToString(lresp'.code))
                /\ lsleeps' = lsleeps]_vars
    /\ [][ClientError(lresp) => (lreqs' <= lreqs /\ lsleeps' <= lsleeps)]_vars
    /\ [](~lkey => lreqs = 0)
    /\ []((lpc = "done" /\ ~lkey)
             => lout = Raised("RuntimeError: OPENAI_API_KEY not set"))

\* C24 witness: a call whose first attempt met a retried status has met a
\* 404 on the second and has raised it; one sleep, the one before it
C24_Witness ==
    /\ lpc = "done"
    /\ lresp = Status(404)
    /\ lattempt = 1 /\ lreqs = 2 /\ lsleeps = 1
    /\ lretries = 3
    /\ llast.kind = "status"
    /\ lout = Raised("HTTPStatusError 404")

\* the order a stable sort by descending score gives: equal scores in the
\* order of the dense hits
StableOrder(scores) ==
    CHOOSE order \in Argsort(scores) :
        \A a, b \in 1..Len(scores) :
            (a < b /\ scores[order[a]] = scores[order[b]]) => order[a] < order[b]

\* C25: retrieve(question, top_k) takes the at most 2*top_k dense hits and
\* returns the first top_k of them in the order of descending BM25 score,
\* hits of equal score in the order of their dense rank.
C25_RerankByLexicalScore ==
    (qvia = "retrieve" /\ qpc = "done" /\ qout.kind = "return" /\ qhits # <<>>)
    => /\ Len(qhits) <= 2 * qargs.k
       /\ qout.data = Reranked(qhits, qscores,
                               PySlice(StableOrder(qscores), 0, qargs.k))

-----------------------------------------------------------------------------
(* Properties of _load_manifest *)

\* an object with an identifying key and a content hash
WellFormedRow(line) ==
    /\ line \notin {BlankLine, BadLine}
    /\ ~NotADict(line)
    /\ FirstTrue(line, <<"doc_id", "source", "id", "path", "url">>) # ""
    /\ FirstTrue(line, <<"version_hash", "hash", "sha256">>) # ""

\* C26: _load_manifest never fails on a malformed or legacy row: a run
\* started on any manifest gets past the load, and the manifest loaded is the
\* one its well-formed rows alone give; every other row is skipped.
C26_MalformedRowsSkipped ==
    [][(spc = "idle" /\ spc' # "idle") =>
          /\ spc' = "loop"
          /\ Returned(manifest')
                = LoadManifest(SelectSeq(metaFile, WellFormedRow), now_iso(clock))
      ]_vars

-----------------------------------------------------------------------------
(* Properties of query expansion *)

\* the table of _expand_query: trigger keywords and the synonyms they add
ExpansionTable ==
    <<[keys |-> {"2~8", "2-8", "2 to 8", "refriger", "cold chain",
                 "transport", "shipping", "storage"},
       synonyms |-> TempSynonyms],
      [keys |-> {"malaria", "endemic"}, synonyms |-> MalariaSynonyms],
      [keys |-> {"deferr", "ineligib", "exclusion", "eligib"},
       synonyms |-> DeferralSynonyms]>>

\* the question holds a keyword of row r of the table, in any case
Triggered(q, r) == \E k \in ExpansionTable[r].keys : Contains(Lower(q), k)

\* the terms the table gives for q: the synonyms of the triggered rows, in
\* table order, each at its first place only, and the first 12 of these
MatchedTerms(q) ==
    LET table == ExpansionTable[1].synonyms \o ExpansionTable[2].synonyms
                 \o ExpansionTable[3].synonyms
        RowOf(p) == IF p <= Len(ExpansionTable[1].synonyms) THEN 1
                    ELSE IF p <= Len(ExpansionTable[1].synonyms)
                                 + Len(ExpansionTable[2].synonyms) THEN 2
                    ELSE 3
        rows  == {r \in 1..Len(ExpansionTable) : Triggered(q, r)}
        first == {p \in 1..Len(table) :
                     /\ RowOf(p) \in rows
                     /\ \A o \in 1..(p - 1) :
                           RowOf(o) \in rows => table[o] # table[p]}
    IN  [j \in 1..Min(12, Cardinality(first)) |->
            table[CHOOSE p \in first : Cardinality({o \in first : o < p}) = j - 1]]

\* C27: _expand_query returns the question unchanged when it holds no
\* trigger keyword, and else the question followed by the matched synonym
\* terms, none twice, in table order, at most 12 of them; the result is
\* fixed by the question.
C27_ExpandQueryAppendsSynonyms ==
    xout # NoResult =>
    LET terms == MatchedTerms(xq)
        out   == xout.data
    IN  /\ xout.kind = "return"
        /\ IF \A r \in 1..Len(ExpansionTable) : ~Triggered(xq, r)
           THEN out = xq
           ELSE /\ Take(out, Len(xq)) = xq
                /\ CharAt(out, Len(xq) + 1) = " "
                /\ Drop(out, Len(xq) + 2) = Join(" ", terms)
                /\ Len(terms) \in 1..12
                /\ \A i, j \in 1..Len(terms) : i # j => terms[i] # terms[j]

\* C27 witness: a question with the malaria and the deferral keywords got
\* the 11 different synonyms of the two rows, the shared one once
C27_Witness ==
    /\ xq = "Malaria deferral rules"
    /\ xout = Returned("Malaria deferral rules malaria malaria-endemic endemic region ineligib deferr period of ineligibility deferral ineligible donor eligibility exclusion contraindicated")

-----------------------------------------------------------------------------
(* Properties of the chunk records *)

\* the pages a reader of the run gets for a document: the sources do not
\* change while a run is under way
PagesNow(doc_id) ==
    IF doc_id \in FileNames THEN TxtPages(rawFiles[doc_id].rows).pages
    ELSE WebPagesOf(WebText(doc_id)).pages

\* C28: every chunk record a run of scan_and_index writes carries as
\* version_hash the content hash of the text the chunk was split from, also
\* when the content read is not the latest version and is read again from
\* the latest record's locator.
C28_ChunkHashIsContentHash ==
    spc \in {"loop", "ended"} =>
        \A i \in 1..Len(Rows(chunksFile)) :
            LET r == Rows(chunksFile)[i]
            IN  /\ \E pg \in 1..Len(PagesNow(r.doc_id)) :
                      \E c \in 1..Len(split_into_chunks(
                                         PagesNow(r.doc_id)[pg].text, 420, 60)) :
                          r.text = split_into_chunks(
                                       PagesNow(r.doc_id)[pg].text, 420, 60)[c]
                /\ r.version_hash = sha256_text(FullText(PagesNow(r.doc_id)))

-----------------------------------------------------------------------------
(* Properties of the citations of an answer *)

\* C29: every citation of a record answer returns refers to retrieved
\* evidence: its source and page are the short source name and the page of
\* one of the passages retrieve returned to the call, whatever citations the
\* backend supplied.
C29_CitationsGrounded ==
    (apc = "done" /\ result.kind = "return") =>
        LET cits == Get(result.data, "citations")
        IN  /\ cits.t = "list"
            /\ \A i \in 1..Len(cits.l) :
                  \E j \in 1..Len(passages) :
                      /\ Get(cits.l[i], "source")
                             = JStr(ShortName(passages[j].source))
                      /\ Get(cits.l[i], "page") = JInt(passages[j].page)

-----------------------------------------------------------------------------
(* Properties of a run without chunks *)

\* C30: a scan_and_index run whose loop wrote no chunk (no sources, or no
\* text in any of them) returns normally, reporting that no chunks were
\* found, and leaves the persisted vectorizer and dense index as they were.
C30_NoChunksReturnsNormally ==
    [][(spc = "loop" /\ si = Len(sources) /\ Rows(chunksFile) = <<>>
            /\ spc' = "ended")
          => /\ scanOutcome' = "returned: no chunks"
             /\ storeFiles' = storeFiles]_vars

====
